---- MODULE Spec2Model ----
(***************************************************************************)
(* A model of rustemo: the Right-Nulled GLR driver of                      *)
(* rustemo/src/glr/parser.rs running generated parser definitions, the     *)
(* single-stack LR driver running the calculator tutorial's definition,    *)
(* and the FIRST/FOLLOW engine of src/table.rs.                            *)
(***************************************************************************)
EXTENDS Integers, Sequences, FiniteSets, TLC

VARIABLES
    def,                \* which ParserDefinition the parser was built with
    input,              \* the input, one character per position
    partial_parse,      \* GlrParser.partial_parse
    heads,              \* GssGraph nodes: NodeIndex -> GssHead
    edges,              \* GssGraph edges: EdgeIndex -> (source, target, Rc<Parent>)
    parents,            \* the Parent objects the edges share by Rc
    trees,              \* the SPPFTree objects the possibilities share by Rc
    frontier_base,      \* BTreeMap<S, NodeIndex>
    frontier,           \* the per-token-kind sub-frontiers still to be reduced
    subfrontier,        \* the sub-frontier the running reducer call owns
    pending_reductions, \* VecDeque<Reduction>
    pending_shifts,     \* Vec<(NodeIndex, S)>
    accepted_heads,     \* Vec<NodeIndex>
    frontier_idx,       \* main-loop counter
    pc,                 \* position of parse_with_context
    result,             \* what parse_with_context returned
    forest,             \* the Forest's results (tree ids)
    hist,               \* observations of the current main-loop iteration
    lr,                 \* the single-stack LR driver
    tbl,                \* calculate_lr_tables: the grammar and its FIRST/FOLLOW sets
    gen,                \* generate_parser: its inputs, position and effects
    look                \* find_lookaheads with a layout parser: its locals and head

vars == <<def, input, partial_parse, heads, edges, parents, trees, frontier_base, frontier,
          subfrontier, pending_reductions, pending_shifts, accepted_heads,
          frontier_idx, pc, result, forest, hist, lr, tbl, gen, look>>

glrvars == <<def, input, partial_parse, heads, edges, parents, trees, frontier_base, frontier,
             subfrontier, pending_reductions, pending_shifts, accepted_heads,
             frontier_idx, pc, result, forest, hist>>

(***************************************************************************)
(* Bounds                                                                  *)
(***************************************************************************)
\* longest input (in tokens) given to the GLR parser
MaxLen == 5
\* longest token stream given to the LR driver
MaxLRLen == 4

\* most productions of a generated grammar, beside the augmented one
MaxProds == 2

\* longest right-hand side of a production of a generated grammar
MaxRhs == 2

\* the most conflicts a table has
MaxConflicts == 2

\* the most tokens of a lexing attempt, the longest layout and the largest
\* LR state of the find_lookaheads runs
MaxLook == 2

(***************************************************************************)
(* Actions of a parser table                                               *)
(***************************************************************************)
Shift(s) == [type |-> "Shift", state |-> s, prod |-> 0, length |-> 0]

Reduce(p, n) == [type |-> "Reduce", state |-> 0, prod |-> p, length |-> n]

Accept == [type |-> "Accept", state |-> 0, prod |-> 0, length |-> 0]

Error == [type |-> "Error", state |-> 0, prod |-> 0, length |-> 0]

\* the result of a goto function that panics
GotoPanic == 0 - 1

\* TokenKind::STOP, the default token kind of every definition
STOP == 0

(***************************************************************************)
(* CalcParserDefinition (E: E Add E | E Mul E | Number), generated, GLR    *)
(***************************************************************************)
Number == 1
Add == 2
Mul == 3

EP1 == 1
EP2 == 2
EP3 == 3

NT_EMPTY == 0
NT_AUG == 1
NT_E == 2

AUGS0 == 0
NumberS1 == 1
ES2 == 2
AddS3 == 3
MulS4 == 4
ES5 == 5
ES6 == 6

action_aug_s0(token_kind) ==
    IF token_kind = Number THEN <<Shift(NumberS1)>> ELSE <<>>

action_number_s1(token_kind) ==
    IF token_kind \in {STOP, Add, Mul} THEN <<Reduce(EP3, 1)>> ELSE <<>>

action_e_s2(token_kind) ==
    CASE token_kind = STOP -> <<Accept>>
      [] token_kind = Add -> <<Shift(AddS3)>>
      [] token_kind = Mul -> <<Shift(MulS4)>>
      [] OTHER -> <<>>

action_add_s3(token_kind) ==
    IF token_kind = Number THEN <<Shift(NumberS1)>> ELSE <<>>

action_mul_s4(token_kind) ==
    IF token_kind = Number THEN <<Shift(NumberS1)>> ELSE <<>>

action_e_s5(token_kind) ==
    CASE token_kind = STOP -> <<Reduce(EP1, 3)>>
      [] token_kind = Add -> <<Shift(AddS3), Reduce(EP1, 3)>>
      [] token_kind = Mul -> <<Shift(MulS4), Reduce(EP1, 3)>>
      [] OTHER -> <<>>

action_e_s6(token_kind) ==
    CASE token_kind = STOP -> <<Reduce(EP2, 3)>>
      [] token_kind = Add -> <<Shift(AddS3), Reduce(EP2, 3)>>
      [] token_kind = Mul -> <<Shift(MulS4), Reduce(EP2, 3)>>
      [] OTHER -> <<>>

goto_aug_s0(nonterm_kind) == IF nonterm_kind = NT_E THEN ES2 ELSE GotoPanic

\* goto_add_s3 without its entry for E
goto_add_s3_missing(nonterm_kind) == GotoPanic

goto_add_s3(nonterm_kind) == IF nonterm_kind = NT_E THEN ES5 ELSE GotoPanic

goto_mul_s4(nonterm_kind) == IF nonterm_kind = NT_E THEN ES6 ELSE GotoPanic

goto_invalid(nonterm_kind) == GotoPanic

CalcActions(state, token) ==
    CASE state = AUGS0 -> action_aug_s0(token)
      [] state = NumberS1 -> action_number_s1(token)
      [] state = ES2 -> action_e_s2(token)
      [] state = AddS3 -> action_add_s3(token)
      [] state = MulS4 -> action_mul_s4(token)
      [] state = ES5 -> action_e_s5(token)
      [] state = ES6 -> action_e_s6(token)

CalcGoto(state, nonterm) ==
    CASE state = AUGS0 -> goto_aug_s0(nonterm)
      [] state = AddS3 -> goto_add_s3(nonterm)
      [] state = MulS4 -> goto_mul_s4(nonterm)
      [] OTHER -> goto_invalid(nonterm)

CalcTokenKinds(state) ==
    IF state \in {AUGS0, AddS3, MulS4} THEN <<Number>> ELSE <<STOP, Add, Mul>>

\* impl From<ProdKind> for NonTermKind
CalcNonTerm(prod) == NT_E

(***************************************************************************)
(* S: S S | "b" -- the LR table in GLR mode.                               *)
(* terminals STOP = 0, b = 1; productions 1: S -> S S, 2: S -> b;          *)
(* non-terminals AUG = 1, S = 2; states 0: AUG, 1: S, 2: b, 3: S           *)
(***************************************************************************)
SSActions(state, token) ==
    CASE state = 0 /\ token = 1 -> <<Shift(2)>>
      [] state = 1 /\ token = STOP -> <<Accept>>
      [] state = 1 /\ token = 1 -> <<Shift(2)>>
      [] state = 2 /\ token \in {STOP, 1} -> <<Reduce(2, 1)>>
      [] state = 3 /\ token = STOP -> <<Reduce(1, 2)>>
      [] state = 3 /\ token = 1 -> <<Shift(2), Reduce(1, 2)>>
      [] OTHER -> <<>>

SSGoto(state, nonterm) ==
    CASE state = 0 /\ nonterm = 2 -> 1
      [] state = 1 /\ nonterm = 2 -> 3
      [] state = 3 /\ nonterm = 2 -> 3
      [] OTHER -> GotoPanic

SSTokenKinds(state) == IF state = 0 THEN <<1>> ELSE <<STOP, 1>>

SSNonTerm(prod) == 2

SSRhsLen(prod) == IF prod = 1 THEN 2 ELSE 1

(***************************************************************************)
(* S: "a" B "c"; B: "b" | ;  -- nullable B in the middle.                  *)
(* terminals STOP = 0, a = 1, b = 2, c = 3; productions 1: S -> a B c,     *)
(* 2: B -> b, 3: B -> EMPTY; non-terminals AUG = 1, S = 2, B = 3;          *)
(* states 0: AUG, 1: a, 2: S, 3: B, 4: b, 5: c                             *)
(***************************************************************************)
ABActions(state, token) ==
    CASE state = 0 /\ token = 1 -> <<Shift(1)>>
      [] state = 1 /\ token = 2 -> <<Shift(4)>>
      [] state = 1 /\ token = 3 -> <<Reduce(3, 0)>>
      [] state = 2 /\ token = STOP -> <<Accept>>
      [] state = 3 /\ token = 3 -> <<Shift(5)>>
      [] state = 4 /\ token = 3 -> <<Reduce(2, 1)>>
      [] state = 5 /\ token = STOP -> <<Reduce(1, 3)>>
      [] OTHER -> <<>>

ABGoto(state, nonterm) ==
    CASE state = 0 /\ nonterm = 2 -> 2
      [] state = 1 /\ nonterm = 3 -> 3
      [] OTHER -> GotoPanic

ABTokenKinds(state) ==
    CASE state = 0 -> <<1>>
      [] state = 1 -> <<2, 3>>
      [] state = 3 -> <<3>>
      [] state = 4 -> <<3>>
      [] OTHER -> <<STOP>>

ABNonTerm(prod) == IF prod = 1 THEN 2 ELSE 3

ABRhsLen(prod) == CASE prod = 1 -> 3 [] prod = 2 -> 1 [] OTHER -> 0

(***************************************************************************)
(* S: "a" B C; B: "b" | ; C: "c" | ;  -- nullable tail, right-nulled table.*)
(* terminals STOP = 0, a = 1, b = 2, c = 3; productions 1: S -> a B C,     *)
(* 2: B -> b, 3: B -> EMPTY, 4: C -> c, 5: C -> EMPTY;                     *)
(* non-terminals AUG = 1, S = 2, B = 3, C = 4;                             *)
(* states 0: AUG, 1: a, 2: S, 3: B, 4: b, 5: C, 6: c                       *)
(***************************************************************************)
RNActions(state, token) ==
    CASE state = 0 /\ token = 1 -> <<Shift(1)>>
      [] state = 1 /\ token = 2 -> <<Shift(4)>>
      [] state = 1 /\ token = 3 -> <<Reduce(3, 0)>>
      [] state = 1 /\ token = STOP -> <<Reduce(3, 0), Reduce(1, 1)>>
      [] state = 2 /\ token = STOP -> <<Accept>>
      [] state = 3 /\ token = 3 -> <<Shift(6)>>
      [] state = 3 /\ token = STOP -> <<Reduce(5, 0), Reduce(1, 2)>>
      [] state = 4 /\ token \in {STOP, 3} -> <<Reduce(2, 1)>>
      [] state = 5 /\ token = STOP -> <<Reduce(1, 3)>>
      [] state = 6 /\ token = STOP -> <<Reduce(4, 1)>>
      [] OTHER -> <<>>

RNGoto(state, nonterm) ==
    CASE state = 0 /\ nonterm = 2 -> 2
      [] state = 1 /\ nonterm = 3 -> 3
      [] state = 3 /\ nonterm = 4 -> 5
      [] OTHER -> GotoPanic

RNTokenKinds(state) ==
    CASE state = 0 -> <<1>>
      [] state = 1 -> <<STOP, 2, 3>>
      [] state = 3 -> <<STOP, 3>>
      [] state = 4 -> <<STOP, 3>>
      [] OTHER -> <<STOP>>

RNNonTerm(prod) ==
    CASE prod = 1 -> 2 [] prod \in {2, 3} -> 3 [] OTHER -> 4

RNRhsLen(prod) ==
    CASE prod = 1 -> 3 [] prod \in {2, 4} -> 1 [] OTHER -> 0

(***************************************************************************)
(* S: A S "b" | "x"; A: ;  -- hidden left recursion: GOTO(1, A) = 1.       *)
(* terminals STOP = 0, b = 1, x = 2; productions 1: S -> A S b, 2: S -> x, *)
(* 3: A -> EMPTY; non-terminals AUG = 1, S = 2, A = 3;                     *)
(* states 0: AUG, 1: A, 2: S (of AUG), 3: x, 4: S (of A S b), 5: b         *)
(***************************************************************************)
HLActions(state, token) ==
    CASE state \in {0, 1} /\ token = 2 -> <<Shift(3), Reduce(3, 0)>>
      [] state = 2 /\ token = STOP -> <<Accept>>
      [] state = 3 /\ token \in {STOP, 1} -> <<Reduce(2, 1)>>
      [] state = 4 /\ token = 1 -> <<Shift(5)>>
      [] state = 5 /\ token \in {STOP, 1} -> <<Reduce(1, 3)>>
      [] OTHER -> <<>>

HLGoto(state, nonterm) ==
    CASE state = 0 /\ nonterm = 2 -> 2
      [] state = 0 /\ nonterm = 3 -> 1
      [] state = 1 /\ nonterm = 2 -> 4
      [] state = 1 /\ nonterm = 3 -> 1
      [] OTHER -> GotoPanic

HLTokenKinds(state) ==
    CASE state \in {0, 1} -> <<2>>
      [] state = 2 -> <<STOP>>
      [] state = 4 -> <<1>>
      [] OTHER -> <<STOP, 1>>

HLNonTerm(prod) == IF prod = 3 THEN 3 ELSE 2

HLRhsLen(prod) == CASE prod = 1 -> 3 [] prod = 2 -> 1 [] OTHER -> 0

\* S: "a" S | A | B; A: X1; B: X2; where the recognizers of X1 and X2 both
\* match "x".  Terminals: a = 1, X1 = 2, X2 = 3; non-terminals S = 2, A = 3,
\* B = 4; productions 1: S -> a S, 2: S -> A, 3: S -> B, 4: A -> X1,
\* 5: B -> X2.
LAActions(state, token) ==
    CASE state \in {0, 2} /\ token = 1 -> <<Shift(2)>>
      [] state \in {0, 2} /\ token = 2 -> <<Shift(3)>>
      [] state \in {0, 2} /\ token = 3 -> <<Shift(4)>>
      [] state = 1 /\ token = STOP -> <<Accept>>
      [] state = 3 /\ token = STOP -> <<Reduce(4, 1)>>
      [] state = 4 /\ token = STOP -> <<Reduce(5, 1)>>
      [] state = 5 /\ token = STOP -> <<Reduce(2, 1)>>
      [] state = 6 /\ token = STOP -> <<Reduce(3, 1)>>
      [] state = 7 /\ token = STOP -> <<Reduce(1, 2)>>
      [] OTHER -> <<>>

LAGoto(state, nonterm) ==
    CASE state = 0 /\ nonterm = 2 -> 1
      [] state = 2 /\ nonterm = 2 -> 7
      [] state \in {0, 2} /\ nonterm = 3 -> 5
      [] state \in {0, 2} /\ nonterm = 4 -> 6
      [] OTHER -> GotoPanic

LATokenKinds(state) ==
    IF state \in {0, 2} THEN <<1, 2, 3>> ELSE <<STOP>>

LANonTerm(prod) == CASE prod \in {1, 2, 3} -> 2 [] prod = 4 -> 3 [] OTHER -> 4

LARhsLen(prod) == IF prod = 1 THEN 2 ELSE 1

\* S: A X1 | A X2; A: "a"; where the recognizers of X1 and X2 both match
\* "x".  Terminals: a = 1, X1 = 2, X2 = 3; non-terminals S = 2, A = 3;
\* productions 1: S -> A X1, 2: S -> A X2, 3: A -> a.  States: 0 start,
\* 1 after S, 2 after a, 3 after A, 4 after A X1, 5 after A X2.
LBActions ==
    [state \in 0..5 |-> [token \in 0..3 |->
        CASE state = 0 /\ token = 1 -> <<Shift(2)>>
          [] state = 1 /\ token = STOP -> <<Accept>>
          [] state = 2 /\ token \in {2, 3} -> <<Reduce(3, 1)>>
          [] state = 3 /\ token = 2 -> <<Shift(4)>>
          [] state = 3 /\ token = 3 -> <<Shift(5)>>
          [] state = 4 /\ token = STOP -> <<Reduce(1, 2)>>
          [] state = 5 /\ token = STOP -> <<Reduce(2, 2)>>
          [] OTHER -> <<>>]]

LBGoto ==
    [state \in 0..5 |-> [nonterm \in 0..3 |->
        CASE state = 0 /\ nonterm = 2 -> 1
          [] state = 0 /\ nonterm = 3 -> 3
          [] OTHER -> GotoPanic]]

LBTokenKinds ==
    [state \in 0..5 |->
        CASE state = 0 -> <<1>>
          [] state \in {2, 3} -> <<2, 3>>
          [] OTHER -> <<STOP>>]

LBNonTerm ==
    [prod \in 1..3 |-> IF prod = 3 THEN 3 ELSE 2]

LBRhsLen ==
    [prod \in 1..3 |-> IF prod = 3 THEN 1 ELSE 2]

LBTable ==
    [actions |-> LBActions, goto |-> LBGoto, token_kinds |-> LBTokenKinds,
     nonterm |-> LBNonTerm, rhs_len |-> LBRhsLen]

\* S: A X1 | B X2; A: "a"; B: "a"; where the recognizers of X1 and X2 both
\* match "x".  Terminals: a = 1, X1 = 2, X2 = 3; non-terminals S = 2, A = 3,
\* B = 4; productions 1: S -> A X1, 2: S -> B X2, 3: A -> a, 4: B -> a.
\* States: 0 start, 1 after S, 2 after a, 3 after A, 4 after B,
\* 5 after A X1, 6 after B X2.
LCActions ==
    [state \in 0..6 |-> [token \in 0..3 |->
        CASE state = 0 /\ token = 1 -> <<Shift(2)>>
          [] state = 1 /\ token = STOP -> <<Accept>>
          [] state = 2 /\ token = 2 -> <<Reduce(3, 1)>>
          [] state = 2 /\ token = 3 -> <<Reduce(4, 1)>>
          [] state = 3 /\ token = 2 -> <<Shift(5)>>
          [] state = 4 /\ token = 3 -> <<Shift(6)>>
          [] state = 5 /\ token = STOP -> <<Reduce(1, 2)>>
          [] state = 6 /\ token = STOP -> <<Reduce(2, 2)>>
          [] OTHER -> <<>>]]

LCGoto ==
    [state \in 0..6 |-> [nonterm \in 0..4 |->
        CASE state = 0 /\ nonterm = 2 -> 1
          [] state = 0 /\ nonterm = 3 -> 3
          [] state = 0 /\ nonterm = 4 -> 4
          [] OTHER -> GotoPanic]]

LCTokenKinds ==
    [state \in 0..6 |->
        CASE state = 0 -> <<1>>
          [] state = 2 -> <<2, 3>>
          [] state = 3 -> <<2>>
          [] state = 4 -> <<3>>
          [] OTHER -> <<STOP>>]

LCNonTerm ==
    [prod \in 1..4 |-> CASE prod = 3 -> 3 [] prod = 4 -> 4 [] OTHER -> 2]

LCRhsLen ==
    [prod \in 1..4 |-> IF prod \in {3, 4} THEN 1 ELSE 2]

LCTable ==
    [actions |-> LCActions, goto |-> LCGoto, token_kinds |-> LCTokenKinds,
     nonterm |-> LCNonTerm, rhs_len |-> LCRhsLen]

\* S: X1 D | X2 D; D: "d"; where the recognizer of X1 matches "x" and the
\* recognizer of X2 matches "xd", the longest match being off.  Terminals:
\* X1 = 1, X2 = 2, d = 3; non-terminals S = 2, D = 3; productions
\* 1: S -> X1 D, 2: S -> X2 D, 3: D -> d.  States: 0 start, 1 after S,
\* 2 after X1, 3 after X2, 4 after d, 5 after X1 D, 6 after X2 D.
LDActions ==
    [state \in 0..6 |-> [token \in 0..3 |->
        CASE state = 0 /\ token = 1 -> <<Shift(2)>>
          [] state = 0 /\ token = 2 -> <<Shift(3)>>
          [] state = 1 /\ token = STOP -> <<Accept>>
          [] state \in {2, 3} /\ token = 3 -> <<Shift(4)>>
          [] state = 4 /\ token = STOP -> <<Reduce(3, 1)>>
          [] state = 5 /\ token = STOP -> <<Reduce(1, 2)>>
          [] state = 6 /\ token = STOP -> <<Reduce(2, 2)>>
          [] OTHER -> <<>>]]

LDGoto ==
    [state \in 0..6 |-> [nonterm \in 0..3 |->
        CASE state = 0 /\ nonterm = 2 -> 1
          [] state = 2 /\ nonterm = 3 -> 5
          [] state = 3 /\ nonterm = 3 -> 6
          [] OTHER -> GotoPanic]]

LDTokenKinds ==
    [state \in 0..6 |->
        CASE state = 0 -> <<1, 2>>
          [] state \in {2, 3} -> <<3>>
          [] OTHER -> <<STOP>>]

LDNonTerm ==
    [prod \in 1..3 |-> IF prod = 3 THEN 3 ELSE 2]

LDRhsLen ==
    [prod \in 1..3 |-> IF prod = 3 THEN 1 ELSE 2]

LDTable ==
    [actions |-> LDActions, goto |-> LDGoto, token_kinds |-> LDTokenKinds,
     nonterm |-> LDNonTerm, rhs_len |-> LDRhsLen]

(***************************************************************************)
(* The ParserDefinition trait, dispatched on the definition in use         *)
(***************************************************************************)
Defs == {"Calc", "SS", "AB", "RN", "HL", "LA", "LB", "LC", "LD"}

\* the terminals of a definition other than STOP
Terminals(d) ==
    CASE d = "Calc" -> {Number, Add, Mul}
      [] d = "SS" -> {1}
      [] d = "AB" -> {1, 2, 3}
      [] d = "RN" -> {1, 2, 3}
      [] d = "HL" -> {1, 2}
      [] d = "LA" -> {1, 2}
      [] d = "LB" -> {1, 2}
      [] d = "LC" -> {1, 2}
      [] d = "LD" -> {1, 2}

actions(d, state, token) ==
    CASE d = "Calc" -> CalcActions(state, token)
      [] d = "SS" -> SSActions(state, token)
      [] d = "AB" -> ABActions(state, token)
      [] d = "RN" -> RNActions(state, token)
      [] d = "HL" -> HLActions(state, token)
      [] d = "LA" -> LAActions(state, token)
      [] d = "LB" -> LBActions[state][token]
      [] d = "LC" -> LCActions[state][token]
      [] d = "LD" -> LDActions[state][token]

goto(d, state, nonterm) ==
    CASE d = "Calc" -> CalcGoto(state, nonterm)
      [] d = "SS" -> SSGoto(state, nonterm)
      [] d = "AB" -> ABGoto(state, nonterm)
      [] d = "RN" -> RNGoto(state, nonterm)
      [] d = "HL" -> HLGoto(state, nonterm)
      [] d = "LA" -> LAGoto(state, nonterm)
      [] d = "LB" -> LBGoto[state][nonterm]
      [] d = "LC" -> LCGoto[state][nonterm]
      [] d = "LD" -> LDGoto[state][nonterm]

expected_token_kinds(d, state) ==
    CASE d = "Calc" -> CalcTokenKinds(state)
      [] d = "SS" -> SSTokenKinds(state)
      [] d = "AB" -> ABTokenKinds(state)
      [] d = "RN" -> RNTokenKinds(state)
      [] d = "HL" -> HLTokenKinds(state)
      [] d = "LA" -> LATokenKinds(state)
      [] d = "LB" -> LBTokenKinds[state]
      [] d = "LC" -> LCTokenKinds[state]
      [] d = "LD" -> LDTokenKinds[state]

\* production.into(): the non-terminal a production reduces to
NonTermOf(d, prod) ==
    CASE d = "Calc" -> CalcNonTerm(prod)
      [] d = "SS" -> SSNonTerm(prod)
      [] d = "AB" -> ABNonTerm(prod)
      [] d = "RN" -> RNNonTerm(prod)
      [] d = "HL" -> HLNonTerm(prod)
      [] d = "LA" -> LANonTerm(prod)
      [] d = "LB" -> LBNonTerm[prod]
      [] d = "LC" -> LCNonTerm[prod]
      [] d = "LD" -> LDNonTerm[prod]

\* the number of symbols on the right-hand side of a production
RhsLen(d, prod) ==
    CASE d = "Calc" -> IF prod = EP3 THEN 1 ELSE 3
      [] d = "SS" -> SSRhsLen(prod)
      [] d = "AB" -> ABRhsLen(prod)
      [] d = "RN" -> RNRhsLen(prod)
      [] d = "HL" -> HLRhsLen(prod)
      [] d = "LA" -> LARhsLen(prod)
      [] d = "LB" -> LBRhsLen[prod]
      [] d = "LC" -> LCRhsLen[prod]
      [] d = "LD" -> LDRhsLen[prod]

(***************************************************************************)
(* Tokens, heads and the graph-structured stack                            *)
(***************************************************************************)
NoToken == [kind |-> 0 - 1, len |-> 0]

NoEdge == 0

EmptyMap == [x \in {} |-> 0]

\* insert into a BTreeMap: a present key is overwritten
MapInsert(m, k, v) == [x \in (DOMAIN m) \cup {k} |-> IF x = k THEN v ELSE m[x]]

\* the keys of a BTreeMap in iteration (ascending) order
RECURSIVE SortedKeys(_)
SortedKeys(S) ==
    CHOOSE r \in
        {IF T = {} THEN <<>>
         ELSE CHOOSE q \in {<<m>> \o SortedKeys(T \ {m}) :
                               m \in {x \in T : \A y \in T : x <= y}} : TRUE
         : T \in {S}} : TRUE

\* GssHead::default() with set_position(start_position)
DefaultHead ==
    [state |-> 0, frontier |-> 0, position |-> 0, position_before |-> 0,
     position_ahead |-> 0, token_ahead |-> NoToken]

\* NewHead with the position before the token taken for position_before
NewHeadStale(state, frontier_i, position) ==
    [state |-> state, frontier |-> frontier_i, position |-> position,
     position_before |-> position - 1, position_ahead |-> position,
     token_ahead |-> NoToken]

\* GssHead::new as the shifter calls it
NewHead(state, frontier_i, position) ==
    [state |-> state, frontier |-> frontier_i, position |-> position,
     position_before |-> position, position_ahead |-> position,
     token_ahead |-> NoToken]

with_tok(head, token) == [head EXCEPT !.token_ahead = token]

with_tok_state(head, token, state) ==
    [head EXCEPT !.token_ahead = token, !.state = state]

\* Parent::new(root_node, head_node, possibilities)
NewParent(root_node, head_node) ==
    [root_node |-> root_node, head_node |-> head_node, possibilities |-> <<>>]

\* edges leaving a head, the most recently added first
backedges(es, n) ==
    LET rev == [i \in 1..Len(es) |-> Len(es) + 1 - i]
    IN SelectSeq(rev, LAMBDA e : es[e].source = n)

edge_between(es, a, b) ==
    LET cand == SelectSeq(backedges(es, a), LAMBDA e : es[e].target = b)
    IN IF cand = <<>> THEN NoEdge ELSE cand[1]

\* gss.add_parent on a record holding the graph; the new edge is the last
add_parent(g, start, end, parent) ==
    [g EXCEPT !.edges = Append(@, [source |-> start, target |-> end,
                                   parent |-> parent])]

TermTree(token) ==
    [kind |-> "Term", token |-> token, prod |-> 0, children |-> <<>>,
     start |-> 0, end |-> 0]

NonTermTree(prod, children, start, end) ==
    [kind |-> "NonTerm", token |-> NoToken, prod |-> prod,
     children |-> children, start |-> start, end |-> end]

\* gss.add_solution: push a possibility on the edge between two heads,
\* creating the edge (and its Parent) when there is none
add_solution(g, start, end, tree) ==
    LET found == edge_between(g.edges, start, end)
        g1 == IF found = NoEdge
              THEN add_parent([g EXCEPT !.parents =
                                   Append(@, NewParent(end, start))],
                              start, end, Len(g.parents) + 1)
              ELSE g
        e == IF found = NoEdge THEN Len(g1.edges) ELSE found
        p == g1.edges[e].parent
    IN [g1 EXCEPT !.trees = Append(@, tree),
                  !.parents[p].possibilities = Append(@, Len(g.trees) + 1)]

(***************************************************************************)
(* Lexer                                                                   *)
(***************************************************************************)
\* the text a recognizer of the kind matches at the position, if any: in
\* "LA", "LB" and "LC" the recognizers of X1 (2) and X2 (3) both match the
\* character 2, in "LD" X1 (1) matches the character 1, X2 (2) the
\* characters 1 2 and d (3) the character 2, elsewhere every kind has a
\* character of its own
Matched(d, kind, inp, position) ==
    LET literal ==
            CASE d \in {"LA", "LB", "LC"} -> IF kind = 1 THEN <<1>> ELSE <<2>>
              [] d = "LD" -> CASE kind = 1 -> <<1>>
                               [] kind = 2 -> <<1, 2>>
                               [] OTHER -> <<2>>
              [] OTHER -> <<kind>>
    IN {w \in {literal} :
           /\ position + Len(w) <= Len(inp)
           /\ \A i \in 1..Len(w) : inp[position + i] = w[i]}

\* does a recognizer of the kind match the input at the position
Recognizes(d, kind, inp, position) ==
    IF kind = STOP THEN position >= Len(inp)
    ELSE Matched(d, kind, inp, position) # {}

\* token.value.len()
TokenLen(d, kind, inp, position) ==
    IF kind = STOP THEN 0
    ELSE Len(CHOOSE w \in Matched(d, kind, inp, position) : TRUE)

next_tokens(d, head, inp, expected_tokens) ==
    LET matching == SelectSeq(expected_tokens,
                        LAMBDA k : Recognizes(d, k, inp, head.position))
    IN [i \in 1..Len(matching) |->
            [kind |-> matching[i],
             len |-> TokenLen(d, matching[i], inp, head.position)]]

has_layout == FALSE

\* find_lookaheads that adds STOP to the recognized tokens
find_lookaheads_stop_anywhere(d, head, inp) ==
    LET expected_tokens == expected_token_kinds(d, head.state)
        tokens == next_tokens(d, head, inp, expected_tokens)
    IN IF /\ partial_parse
          /\ \E i \in 1..Len(expected_tokens) : expected_tokens[i] = STOP
          /\ \A i \in 1..Len(tokens) : tokens[i].kind # STOP
       THEN Append(tokens, [kind |-> STOP, len |-> 0])
       ELSE tokens

find_lookaheads(d, head, inp) ==
    LET expected_tokens == expected_token_kinds(d, head.state)
        tokens == next_tokens(d, head, inp, expected_tokens)
    IN IF tokens # <<>> THEN tokens
       ELSE IF partial_parse
               /\ \E i \in 1..Len(expected_tokens) : expected_tokens[i] = STOP
            THEN <<[kind |-> STOP, len |-> 0]>>
            ELSE <<>>

(***************************************************************************)
(* create_frontier                                                         *)
(*                                                                         *)
(* The loops below thread the graph through their iterations; each         *)
(* iteration binds the value it receives (s \in {...}) so that it is       *)
(* computed once.                                                          *)
(***************************************************************************)
\* frontier.entry(kind).or_default().insert(state, head)
FrontierInsert(fr, kind, state, head_idx) ==
    MapInsert(fr, kind,
              MapInsert(IF kind \in DOMAIN fr THEN fr[kind] ELSE EmptyMap,
                        state, head_idx))

\* copy every parent edge of head_idx to new_head, sharing the Parent
RECURSIVE CopyParents(_, _, _)
CopyParents(g, new_head, es) ==
    CHOOSE r \in
        {IF es = <<>> THEN s
         ELSE CopyParents(add_parent(s, new_head, s.edges[es[1]].target,
                                     s.edges[es[1]].parent),
                          new_head, Tail(es)) : s \in {g}} : TRUE

\* head_for_lookahead that copies no parent edge
head_for_lookahead_no_parents(g, head_idx, lookahead) ==
    [g EXCEPT !.heads = Append(@, with_tok(g.heads[head_idx], lookahead))]

\* head_for_lookahead whose new head keeps the token of the original
head_for_lookahead_same_token(g, head_idx, lookahead) ==
    LET g1 == [g EXCEPT !.heads = Append(@, g.heads[head_idx])]
    IN CopyParents(g1, Len(g1.heads), backedges(g.edges, head_idx))

\* returns the graph with the new head as its last node
head_for_lookahead(g, head_idx, lookahead) ==
    LET g1 == [g EXCEPT !.heads = Append(@, with_tok(g.heads[head_idx], lookahead))]
    IN CopyParents(g1, Len(g1.heads), backedges(g.edges, head_idx))

\* the loop over the tokens left after pop(): one new head per token
RECURSIVE FanOut(_, _, _, _)
FanOut(g, head_idx, state, lookahead_tokens) ==
    CHOOSE r \in
        {IF lookahead_tokens = <<>> THEN s
         ELSE LET g1 == head_for_lookahead(s, head_idx, lookahead_tokens[1])
              IN FanOut([g1 EXCEPT !.frontier =
                             FrontierInsert(@, lookahead_tokens[1].kind, state,
                                            Len(g1.heads))],
                        head_idx, state, Tail(lookahead_tokens)) : s \in {g}} : TRUE

\* CreateFrontierHead that puts a head without lookahead in the sub-frontier
\* of STOP
CreateFrontierHeadKeepsDead(d, inp, g, head_idx) ==
    LET head == g.heads[head_idx]
    IN IF head.token_ahead # NoToken
       THEN [g EXCEPT !.frontier =
                 FrontierInsert(@, head.token_ahead.kind, head.state, head_idx)]
       ELSE LET lookahead_tokens == find_lookaheads(d, head, inp)
            IN IF lookahead_tokens = <<>>
               THEN [g EXCEPT !.frontier =
                        FrontierInsert(@, STOP, head.state, head_idx)]
               ELSE LET n == Len(lookahead_tokens)
                        token == lookahead_tokens[n]
                        g1 == [g EXCEPT
                                 !.frontier = FrontierInsert(@, token.kind,
                                                  head.state, head_idx),
                                 !.heads[head_idx] = with_tok(@, token)]
                    IN FanOut(g1, head_idx, head.state,
                              SubSeq(lookahead_tokens, 1, n - 1))

\* the body of the loop of create_frontier for one head of the base
CreateFrontierHead(d, inp, g, head_idx) ==
    LET head == g.heads[head_idx]
    IN IF head.token_ahead # NoToken
       THEN [g EXCEPT !.frontier =
                 FrontierInsert(@, head.token_ahead.kind, head.state, head_idx)]
       ELSE LET lookahead_tokens == find_lookaheads(d, head, inp)
            IN IF lookahead_tokens = <<>> THEN g
               ELSE LET n == Len(lookahead_tokens)
                        token == lookahead_tokens[n]
                        g1 == [g EXCEPT
                                 !.frontier = FrontierInsert(@, token.kind,
                                                  head.state, head_idx),
                                 !.heads[head_idx] = with_tok(@, token)]
                    IN FanOut(g1, head_idx, head.state,
                              SubSeq(lookahead_tokens, 1, n - 1))

RECURSIVE CreateFrontierLoop(_, _, _, _, _)
CreateFrontierLoop(d, inp, g, base, keys) ==
    CHOOSE r \in
        {IF keys = <<>> THEN s
         ELSE CreateFrontierLoop(d, inp,
                                 CreateFrontierHead(d, inp, s, base[keys[1]]),
                                 base, Tail(keys)) : s \in {g}} : TRUE

create_frontier(d, inp, g, base) ==
    CreateFrontierLoop(d, inp, [g EXCEPT !.frontier = EmptyMap], base,
                       SortedKeys(DOMAIN base))

(***************************************************************************)
(* Registration of pending work                                            *)
(***************************************************************************)
EdgeStart(e) == [kind |-> "Edge", id |-> e]

NodeStart(n) == [kind |-> "Node", id |-> n]

Reduction(start, production, length) ==
    [start |-> start, production |-> production, length |-> length]

\* pending_reductions.push_back
PushReduction(st, r) ==
    [st EXCEPT !.pending_reductions = Append(@, r),
               !.hist.reg_log = Append(@, r)]

\* pending_shifts.push
PushShift(st, head_idx, state) ==
    [st EXCEPT !.pending_shifts = Append(@, <<head_idx, state>>)]

\* accepted_heads.push
PushAccepted(st, head_idx) ==
    [st EXCEPT !.accepted_heads = Append(@, head_idx)]

\* take_while(|a| !matches!(a, Action::Error))
RECURSIVE TakeNonError(_)
TakeNonError(acts) ==
    CHOOSE r \in
        {IF a = <<>> \/ a[1].type = "Error" THEN <<>>
         ELSE <<a[1]>> \o TakeNonError(Tail(a)) : a \in {acts}} : TRUE

(***************************************************************************)
(* initial_process_frontier                                                *)
(***************************************************************************)
RECURSIVE RegisterOverEdges(_, _, _, _)
RegisterOverEdges(st, es, prod, length) ==
    CHOOSE r \in
        {IF es = <<>> THEN s
         ELSE RegisterOverEdges(
                  PushReduction(s, Reduction(EdgeStart(es[1]), prod, length)),
                  Tail(es), prod, length) : s \in {st}} : TRUE

InitialAction(st, head_idx, action) ==
    CASE action.type = "Reduce" ->
            IF action.length = 0
            THEN PushReduction(st, Reduction(NodeStart(head_idx), action.prod, 0))
            ELSE RegisterOverEdges(st, backedges(st.edges, head_idx),
                                   action.prod, action.length)
      [] action.type = "Shift" -> PushShift(st, head_idx, action.state)
      [] action.type = "Accept" -> PushAccepted(st, head_idx)

RECURSIVE InitialActions(_, _, _)
InitialActions(st, head_idx, acts) ==
    CHOOSE r \in
        {IF acts = <<>> THEN s
         ELSE InitialActions(InitialAction(s, head_idx, acts[1]), head_idx,
                             Tail(acts)) : s \in {st}} : TRUE

InitialHead(d, st, state, head_idx) ==
    IF st.heads[head_idx].token_ahead = NoToken
    THEN [st EXCEPT !.panic = TRUE]
    ELSE InitialActions(st, head_idx,
             TakeNonError(actions(d, state, st.heads[head_idx].token_ahead.kind)))

RECURSIVE InitialSubfrontier(_, _, _, _)
InitialSubfrontier(d, st, sub, states) ==
    CHOOSE r \in
        {IF states = <<>> \/ s.panic THEN s
         ELSE InitialSubfrontier(d, InitialHead(d, s, states[1], sub[states[1]]),
                                 sub, Tail(states)) : s \in {st}} : TRUE

RECURSIVE InitialFrontier(_, _, _, _)
InitialFrontier(d, st, fr, kinds) ==
    CHOOSE r \in
        {IF kinds = <<>> \/ s.panic THEN s
         ELSE InitialFrontier(d,
                  InitialSubfrontier(d, s, fr[kinds[1]],
                                     SortedKeys(DOMAIN fr[kinds[1]])),
                  fr, Tail(kinds)) : s \in {st}} : TRUE

initial_process_frontier(d, st, fr) ==
    InitialFrontier(d, st, fr, SortedKeys(DOMAIN fr))

(***************************************************************************)
(* find_reduction_paths                                                    *)
(***************************************************************************)
PendingPath(current_root, left_to_go, path_parents) ==
    [current_root |-> current_root, left_to_go |-> left_to_go,
     parents |-> path_parents]

ReductionPath(path_parents, root_head) ==
    [parents |-> path_parents, root_head |-> root_head]

\* ExtendPath following only the newest back-edge
ExtendPathNewestOnly(es, path) ==
    LET back == backedges(es, path.current_root)
    IN IF back = <<>> THEN <<>>
       ELSE <<PendingPath(es[back[1]].target, path.left_to_go - 1,
                          <<es[back[1]].parent>> \o path.parents)>>

\* ExtendPath putting the parent of the edge behind the parents of the path
ExtendPathAppended(es, path) ==
    LET back == backedges(es, path.current_root)
    IN [i \in 1..Len(back) |->
            PendingPath(es[back[i]].target, path.left_to_go - 1,
                        path.parents \o <<es[back[i]].parent>>)]

\* the pending paths one traversal step pushes for a popped path
ExtendPath(es, path) ==
    LET back == backedges(es, path.current_root)
    IN [i \in 1..Len(back) |->
            PendingPath(es[back[i]].target, path.left_to_go - 1,
                        <<es[back[i]].parent>> \o path.parents)]

\* the while loop over pending_paths
RECURSIVE TraversePaths(_, _, _)
TraversePaths(es, pending_paths, paths) ==
    CHOOSE r \in
        {IF pp = <<>> THEN ps
         ELSE IF Head(pp).left_to_go > 0
              THEN TraversePaths(es, Tail(pp) \o ExtendPath(es, Head(pp)), ps)
              ELSE TraversePaths(es, Tail(pp),
                       Append(ps, ReductionPath(Head(pp).parents,
                                                Head(pp).current_root)))
         : pp \in {pending_paths}, ps \in {paths}} : TRUE

find_reduction_paths(es, reduction) ==
    IF reduction.start.kind = "Node"
    THEN <<ReductionPath(<<>>, reduction.start.id)>>
    ELSE LET start_edge == reduction.start.id
         IN TraversePaths(es,
                <<PendingPath(es[start_edge].target, reduction.length - 1,
                              <<es[start_edge].parent>>)>>,
                <<>>)

(***************************************************************************)
(* reducer                                                                 *)
(***************************************************************************)
\* pop_front taking the newest reduction instead of the oldest
pop_back(q) == [item |-> q[Len(q)], rest |-> SubSeq(q, 1, Len(q) - 1)]

\* pending_reductions.pop_front()
pop_front(q) == [item |-> Head(q), rest |-> Tail(q)]

\* is_new_solution deduplicating on equal (production, children length)
is_new_solution_same_len(head_created, edge_created, poss, production, path_len) ==
    \/ head_created
    \/ edge_created
    \/ \A i \in 1..Len(poss) :
          /\ poss[i].kind = "NonTerm"
          /\ (poss[i].prod # production \/ path_len # Len(poss[i].children))

\* is_new_solution without the check of the existing possibilities
is_new_solution_always(head_created, edge_created, poss, production, path_len) ==
    TRUE

\* poss: the SPPFTree values of the possibilities of the edge, in order
is_new_solution(head_created, edge_created, poss, production, path_len) ==
    \/ head_created
    \/ edge_created
    \/ \A i \in 1..Len(poss) :
          /\ poss[i].kind = "NonTerm"
          /\ (poss[i].prod # production \/ path_len = Len(poss[i].children))

\* ReplacedPossibility that never extends right-nulled children
ReplacedPossibilityNone(poss, production, path_len) == 0

\* the index of the possibility whose children the reducer replaces, or 0
ReplacedPossibility(poss, production, path_len) ==
    LET hits == {i \in 1..Len(poss) :
                     /\ poss[i].kind = "NonTerm"
                     /\ poss[i].prod = production
                     /\ path_len > Len(poss[i].children)}
    IN IF hits = {} THEN 0 ELSE CHOOSE i \in hits : \A j \in hits : i <= j

\* RegisterAction ignoring whether the head or the edge is new
RegisterActionAlways(st, action, head, edge, head_created, edge_created) ==
    CASE action.type = "Reduce" ->
            PushReduction(st,
                Reduction(IF action.length > 0 THEN EdgeStart(edge)
                          ELSE NodeStart(head),
                          action.prod, action.length))
      [] action.type = "Shift" ->
            IF head_created THEN PushShift(st, head, action.state) ELSE st
      [] action.type = "Accept" ->
            IF head_created THEN PushAccepted(st, head) ELSE st

\* RegisterAction accepting a head again when it gets a further solution
RegisterActionAcceptAgain(st, action, head, edge, head_created, edge_created) ==
    CASE action.type = "Reduce" ->
            IF (edge_created /\ action.length > 0) \/ head_created
            THEN PushReduction(st,
                     Reduction(IF action.length > 0 THEN EdgeStart(edge)
                               ELSE NodeStart(head),
                               action.prod, action.length))
            ELSE st
      [] action.type = "Shift" ->
            IF head_created THEN PushShift(st, head, action.state) ELSE st
      [] action.type = "Accept" -> PushAccepted(st, head)

\* RegisterAction pushing the shift of a head that already existed
RegisterActionShiftExisting(st, action, head, edge, head_created, edge_created) ==
    CASE action.type = "Reduce" ->
            IF (edge_created /\ action.length > 0) \/ head_created
            THEN PushReduction(st,
                     Reduction(IF action.length > 0 THEN EdgeStart(edge)
                               ELSE NodeStart(head),
                               action.prod, action.length))
            ELSE st
      [] action.type = "Shift" -> PushShift(st, head, action.state)
      [] action.type = "Accept" ->
            IF head_created THEN PushAccepted(st, head) ELSE st

\* the "Register actions" loop body
RegisterAction(st, action, head, edge, head_created, edge_created) ==
    CASE action.type = "Reduce" ->
            IF (edge_created /\ action.length > 0) \/ head_created
            THEN PushReduction(st,
                     Reduction(IF action.length > 0 THEN EdgeStart(edge)
                               ELSE NodeStart(head),
                               action.prod, action.length))
            ELSE st
      [] action.type = "Shift" ->
            IF head_created THEN PushShift(st, head, action.state) ELSE st
      [] action.type = "Accept" ->
            IF head_created THEN PushAccepted(st, head) ELSE st

RECURSIVE RegisterActions(_, _, _, _, _, _)
RegisterActions(st, acts, head, edge, head_created, edge_created) ==
    CHOOSE r \in
        {IF acts = <<>> THEN s
         ELSE RegisterActions(
                  RegisterAction(s, acts[1], head, edge, head_created, edge_created),
                  Tail(acts), head, edge, head_created, edge_created) : s \in {st}} : TRUE

\* what the history keeps of a possibility
PossView(t) ==
    [kind |-> t.kind, prod |-> t.prod, n |-> Len(t.children),
     children |-> t.children]

Observe(st, reduction, path, info, par, existed, before, outcome) ==
    [st EXCEPT !.hist.obs = Append(@,
        [production |-> reduction.production, length |-> reduction.length,
         path_len |-> Len(path.parents), parent |-> par, existed |-> existed,
         before |-> before, outcome |-> outcome,
         start |-> reduction.start, start_head |-> info.start_head,
         head |-> info.head, head_created |-> info.head_created,
         edge_created |-> info.edge_created, root_head |-> path.root_head,
         path_parents |-> path.parents, subfrontier |-> st.subfrontier])]

\* the body of the loop over the reduction paths of one reduction
\* the edge lookup that never finds the edge
ExistingEdgeNone(es, head, root_head) == NoEdge

\* if let Some(edge) = gss.edge_between(head, path.root_head)
ExistingEdge(es, head, root_head) == edge_between(es, head, root_head)

ReducePath(d, st, reduction, start_head, path) ==
    IF st.heads[start_head].token_ahead = NoToken
    THEN [st EXCEPT !.panic = TRUE]
    ELSE
    LET production == reduction.production
        shead == st.heads[start_head]
        token_kind_ahead == shead.token_ahead.kind
        root_state == st.heads[path.root_head].state
        next_state == goto(d, root_state, NonTermOf(d, production))
    IN
    IF next_state = GotoPanic THEN [st EXCEPT !.panic = TRUE]
    ELSE
    LET acts == TakeNonError(actions(d, next_state, token_kind_ahead))
    IN
    IF acts = <<>>
    THEN Observe(st, reduction, path,
                 [start_head |-> start_head, head |-> 0, head_created |-> FALSE,
                  edge_created |-> FALSE],
                 0, FALSE, <<>>, "noaction")
    ELSE
    LET head_created == next_state \notin DOMAIN st.subfrontier
        st1 == IF head_created
               THEN [st EXCEPT
                       !.heads = Append(@, with_tok_state(shead,
                                              shead.token_ahead, next_state)),
                       !.subfrontier = MapInsert(@, next_state,
                                                 Len(st.heads) + 1)]
               ELSE st
        head == st1.subfrontier[next_state]
        found == ExistingEdge(st1.edges, head, path.root_head)
        edge_created == found = NoEdge
        st2 == IF edge_created
               THEN add_parent([st1 EXCEPT !.parents =
                                    Append(@, NewParent(path.root_head, head))],
                               head, path.root_head, Len(st1.parents) + 1)
               ELSE st1
        edge == IF edge_created THEN Len(st2.edges) ELSE found
        par == st2.edges[edge].parent
        possibilities == st2.parents[par].possibilities
        poss == [i \in 1..Len(possibilities) |-> st2.trees[possibilities[i]]]
        before == [i \in 1..Len(poss) |-> PossView(poss[i])]
        info == [start_head |-> start_head, head |-> head,
                 head_created |-> head_created, edge_created |-> edge_created]
    IN
    IF ~is_new_solution(head_created, edge_created, poss, production,
                        Len(path.parents))
    THEN LET r == ReplacedPossibility(poss, production, Len(path.parents))
         IN IF r = 0
            THEN Observe(st2, reduction, path, info, par, TRUE, before, "skip")
            ELSE Observe([st2 EXCEPT !.trees[possibilities[r]].children =
                                         path.parents],
                         reduction, path, info, par, TRUE, before, "replace")
    ELSE LET root_head == st2.heads[path.root_head]
             solution == NonTermTree(production, path.parents,
                                     root_head.position_ahead,
                                     shead.position_before)
             st3 == [st2 EXCEPT
                       !.trees = Append(@, solution),
                       !.parents[par].possibilities =
                           Append(@, Len(st2.trees) + 1)]
         IN RegisterActions(
                Observe(st3, reduction, path, info, par, ~edge_created, before,
                        "append"),
                acts, head, edge, head_created, edge_created)

RECURSIVE ReducePaths(_, _, _, _, _)
ReducePaths(d, st, reduction, start_head, paths) ==
    CHOOSE r \in
        {IF ps = <<>> \/ s.panic THEN s
         ELSE ReducePaths(d, ReducePath(d, s, reduction, start_head, ps[1]),
                          reduction, start_head, Tail(ps))
         : s \in {st}, ps \in {paths}} : TRUE

\* one iteration of the while loop of reducer
ReduceOne(d, st) ==
    LET popped == pop_front(st.pending_reductions)
        reduction == popped.item
        st1 == [st EXCEPT !.pending_reductions = popped.rest,
                          !.hist.exec_log = Append(@, reduction)]
        start_head == IF reduction.start.kind = "Edge"
                      THEN st.edges[reduction.start.id].source
                      ELSE reduction.start.id
    IN ReducePaths(d, st1, reduction, start_head,
                   find_reduction_paths(st1.edges, reduction))

(***************************************************************************)
(* shifter                                                                 *)
(***************************************************************************)
\* pending_shifts.pop()
pop(v) == [item |-> v[Len(v)], rest |-> SubSeq(v, 1, Len(v) - 1)]

\* one iteration of the while loop of shifter; st.frontier_base is the
\* local map the call returns
\* the position of the shifted head without the length of the token
ShiftPositionSame(head, token) == head.position

\* let position = head.position() + token.value.len()
ShiftPosition(head, token) == head.position + token.len

\* ShiftOne that takes the lookahead away from the head it has shifted
ShiftOneTakesLookahead(st, idx) ==
    LET popped == pop(st.pending_shifts)
        head_idx == popped.item[1]
        state == popped.item[2]
        head == st.heads[head_idx]
    IN
    IF head.token_ahead = NoToken THEN [st EXCEPT !.panic = TRUE]
    ELSE
    LET token == head.token_ahead
        position == ShiftPosition(head, token)
        exists == state \in DOMAIN st.frontier_base
        st1 == IF exists THEN st
               ELSE [st EXCEPT
                       !.heads = Append(@, NewHead(state, idx, position)),
                       !.frontier_base = MapInsert(@, state, Len(st.heads) + 1)]
        shifted_head_idx == st1.frontier_base[state]
    IN [add_solution(st1, shifted_head_idx, head_idx, TermTree(token))
           EXCEPT !.pending_shifts = popped.rest,
                  !.heads[head_idx].token_ahead = NoToken,
                  !.hist.shifts_done = @ + 1,
                  !.hist.shift_log = Append(@, popped.item)]

ShiftOne(st, idx) ==
    LET popped == pop(st.pending_shifts)
        head_idx == popped.item[1]
        state == popped.item[2]
        head == st.heads[head_idx]
    IN
    IF head.token_ahead = NoToken THEN [st EXCEPT !.panic = TRUE]
    ELSE
    LET token == head.token_ahead
        position == ShiftPosition(head, token)
        exists == state \in DOMAIN st.frontier_base
        st1 == IF exists THEN st
               ELSE [st EXCEPT
                       !.heads = Append(@, NewHead(state, idx, position)),
                       !.frontier_base = MapInsert(@, state, Len(st.heads) + 1)]
        shifted_head_idx == st1.frontier_base[state]
    IN [add_solution(st1, shifted_head_idx, head_idx, TermTree(token))
           EXCEPT !.pending_shifts = popped.rest,
                  !.hist.shifts_done = @ + 1,
                  !.hist.shift_log = Append(@, popped.item)]

(***************************************************************************)
(* create_forest and Forest::solutions                                     *)
(***************************************************************************)
RECURSIVE Flatten(_)
Flatten(ss) ==
    CHOOSE r \in
        {IF s = <<>> THEN <<>> ELSE Head(s) \o Flatten(Tail(s)) : s \in {ss}} : TRUE

\* the possibilities on the back-edges of a head
HeadResults(es, ps, head) ==
    LET back == backedges(es, head)
    IN Flatten([i \in 1..Len(back) |-> ps[es[back[i]].parent].possibilities])

create_forest(es, ps, accepted) ==
    Flatten([i \in 1..Len(accepted) |-> HeadResults(es, ps, accepted[i])])

RECURSIVE TreeSolutions(_, _, _, _)
RECURSIVE ParentSolutions(_, _, _, _)
\* fuel bounds the descent; a forest of a finite parse never exhausts it
TreeSolutions(ts, ps, t, fuel) ==
    IF fuel = 0 THEN 0
    ELSE IF ts[t].kind = "Term" THEN 1
    ELSE LET ch == ts[t].children
             Prod[i \in 0..Len(ch)] ==
                 IF i = 0 THEN 1
                 ELSE Prod[i - 1] * ParentSolutions(ts, ps, ch[i], fuel - 1)
         IN Prod[Len(ch)]

ParentSolutions(ts, ps, p, fuel) ==
    LET poss == ps[p].possibilities
        Sum[i \in 0..Len(poss)] ==
            IF i = 0 THEN 0
            ELSE Sum[i - 1] + TreeSolutions(ts, ps, poss[i], fuel)
    IN Sum[Len(poss)]

solutions(ts, ps, results) ==
    LET Sum[i \in 0..Len(results)] ==
            IF i = 0 THEN 0
            ELSE Sum[i - 1] + TreeSolutions(ts, ps, results[i], Len(ts) + 1)
    IN Sum[Len(results)]

(***************************************************************************)
(* parse_with_context                                                      *)
(***************************************************************************)
\* all sequences over S of length at most n
SeqsUpTo(S, n) == UNION {[1..k -> S] : k \in 0..n}

EmptyHist == [reg_log |-> <<>>, exec_log |-> <<>>, shifts_done |-> 0,
              shift_log |-> <<>>, obs |-> <<>>]

\* the driver's state as one record, for the operators above
St ==
    [heads |-> heads, edges |-> edges, parents |-> parents, trees |-> trees,
     frontier_base |-> frontier_base, frontier |-> frontier,
     subfrontier |-> subfrontier, pending_reductions |-> pending_reductions,
     pending_shifts |-> pending_shifts, accepted_heads |-> accepted_heads,
     hist |-> hist, panic |-> FALSE]

Becomes(st, next_pc) ==
    \E s \in {st} :
        /\ heads' = s.heads
        /\ edges' = s.edges
        /\ parents' = s.parents
        /\ trees' = s.trees
        /\ frontier_base' = s.frontier_base
        /\ frontier' = s.frontier
        /\ subfrontier' = s.subfrontier
        /\ pending_reductions' = s.pending_reductions
        /\ pending_shifts' = s.pending_shifts
        /\ accepted_heads' = s.accepted_heads
        /\ hist' = s.hist
        /\ pc' = IF s.panic THEN "panicked" ELSE next_pc
        /\ result' = IF s.panic THEN "panic" ELSE result

\* what parse_with_context returns once the loop has ended
parse_result(accepted) == "Ok"

LRIdle ==
    [stream |-> <<>>, pos |-> 1, stack |-> <<>>, res_stack |-> <<>>,
     events |-> <<>>, read |-> <<>>, status |-> "idle"]

\* calculate_lr_tables not running
TblIdle ==
    [grammar |-> <<>>, pc |-> "idle", first_sets |-> <<>>, follow_sets |-> <<>>,
     additions |-> FALSE, passes |-> 0, panic |-> "none", symbol |-> 0 - 1,
     items |-> {}, new_items |-> <<>>, closure_passes |-> 0,
     item |-> <<>>, next |-> <<>>, probe |-> <<>>]

\* find_lookaheads not running
LookIdle ==
    [pc |-> "idle", layout_parser |-> FALSE, default_layout |-> 0,
     lexer |-> <<>>, layout |-> [ok |-> FALSE, value |-> <<>>],
     expected_stop |-> FALSE, state |-> 0, position |-> 0,
     layout_ahead |-> <<>>, layout_parsing |-> FALSE, current_state |-> <<>>,
     entry_state |-> 0, left_state |-> <<>>, lexed |-> <<>>, layout_calls |-> 0,
     tokens |-> 0]

\* generate_parser not running
GenIdle ==
    [exists |-> FALSE, named |-> FALSE, parses |-> FALSE, conflicts |-> 0,
     generates |-> FALSE, actions |-> FALSE, dir_ok |-> FALSE, write_ok |-> FALSE,
     pc |-> "idle", result |-> "none", error |-> "none",
     conflicts_checked |-> FALSE, report_printed |-> FALSE,
     actions_written |-> FALSE, dir_created |-> FALSE, parser_written |-> FALSE]

Init ==
    /\ def \in Defs
    /\ input \in SeqsUpTo(Terminals(def), MaxLen)
    /\ partial_parse \in BOOLEAN
    /\ heads = <<DefaultHead>>
    /\ edges = <<>>
    /\ parents = <<>>
    /\ trees = <<>>
    /\ frontier_base = MapInsert(EmptyMap, DefaultHead.state, 1)
    /\ frontier = EmptyMap
    /\ subfrontier = EmptyMap
    /\ pending_reductions = <<>>
    /\ pending_shifts = <<>>
    /\ accepted_heads = <<>>
    /\ frontier_idx = 0
    /\ pc = "loop"
    /\ result = "none"
    /\ forest = <<>>
    /\ hist = EmptyHist
    /\ lr = LRIdle
    /\ tbl = TblIdle
    /\ gen = GenIdle
    /\ look = LookIdle

\* while !frontier_base.is_empty(): create_frontier
CreateFrontier ==
    /\ pc = "loop"
    /\ frontier_base # EmptyMap
    /\ Becomes(create_frontier(def, input, [St EXCEPT !.hist = EmptyHist],
                               frontier_base),
               "initial")
    /\ UNCHANGED <<def, input, partial_parse, frontier_idx, forest, lr, tbl, gen, look>>

InitialProcessFrontier ==
    /\ pc = "initial"
    /\ Becomes(initial_process_frontier(def, St, frontier), "subfrontiers")
    /\ UNCHANGED <<def, input, partial_parse, frontier_idx, forest, lr, tbl, gen, look>>

\* for subfrontier in frontier.into_values(): the call of reducer
ReducerCall ==
    /\ pc = "subfrontiers"
    /\ frontier # EmptyMap
    /\ LET k == SortedKeys(DOMAIN frontier)[1]
       IN Becomes([St EXCEPT
                     !.subfrontier = frontier[k],
                     !.frontier = [x \in (DOMAIN frontier) \ {k} |-> frontier[x]]],
                  "reducer")
    /\ UNCHANGED <<def, input, partial_parse, frontier_idx, forest, lr, tbl, gen, look>>

\* while let Some(reduction) = pending_reductions.pop_front()
ReducerStep ==
    /\ pc = "reducer"
    /\ pending_reductions # <<>>
    /\ Becomes(ReduceOne(def, St), "reducer")
    /\ UNCHANGED <<def, input, partial_parse, frontier_idx, forest, lr, tbl, gen, look>>

\* ReducerReturn leaving the loop while reductions are pending
ReducerReturnEarly ==
    /\ pc = "reducer"
    /\ Becomes([St EXCEPT !.subfrontier = EmptyMap], "subfrontiers")
    /\ UNCHANGED <<def, input, partial_parse, frontier_idx, forest, lr, tbl, gen, look>>

ReducerReturn ==
    /\ pc = "reducer"
    /\ pending_reductions = <<>>
    /\ Becomes([St EXCEPT !.subfrontier = EmptyMap], "subfrontiers")
    /\ UNCHANGED <<def, input, partial_parse, frontier_idx, forest, lr, tbl, gen, look>>

\* frontier_idx += 1 and the call of shifter
ShifterCall ==
    /\ pc = "subfrontiers"
    /\ frontier = EmptyMap
    /\ frontier_idx' = frontier_idx + 1
    /\ Becomes([St EXCEPT !.frontier_base = EmptyMap], "shifter")
    /\ UNCHANGED <<def, input, partial_parse, forest, lr, tbl, gen, look>>

\* while let Some((head_idx, state)) = pending_shifts.pop()
ShifterStep ==
    /\ pc = "shifter"
    /\ pending_shifts # <<>>
    /\ Becomes(ShiftOne(St, frontier_idx), "shifter")
    /\ UNCHANGED <<def, input, partial_parse, frontier_idx, forest, lr, tbl, gen, look>>

ShifterReturn ==
    /\ pc = "shifter"
    /\ pending_shifts = <<>>
    /\ Becomes(St, "loop")
    /\ UNCHANGED <<def, input, partial_parse, frontier_idx, forest, lr, tbl, gen, look>>

\* the loop has ended: create_forest and the return
Finish ==
    /\ pc = "loop"
    /\ frontier_base = EmptyMap
    /\ forest' = create_forest(edges, parents, accepted_heads)
    /\ pc' = "done"
    /\ result' = parse_result(accepted_heads)
    /\ UNCHANGED <<def, input, partial_parse, heads, edges, parents, trees, frontier_base,
                   frontier, subfrontier, pending_reductions, pending_shifts,
                   accepted_heads, frontier_idx, hist, lr, tbl, gen, look>>

Next ==
    \/ CreateFrontier
    \/ InitialProcessFrontier
    \/ ReducerCall
    \/ ReducerStep
    \/ ReducerReturn
    \/ ShifterCall
    \/ ShifterStep
    \/ ShifterReturn
    \/ Finish

Spec == Init /\ [][Next]_vars

\* the driver is a sequential loop: an enabled step is eventually taken
FairSpec == Spec /\ WF_vars(Next)

(***************************************************************************)
(* The single-stack LR runtime over the table of CalculatorParserDefinition *)
(***************************************************************************)
Operand == 1

Operator == 2

ExpressionP1 == 1

Expression == 2

\* PARSER_DEFINITION.actions[state][term]
CalculatorActions(state, term) ==
    CASE state = 0 /\ term = Operand -> Shift(1)
      [] state = 1 /\ term = Operator -> Shift(3)
      [] state = 2 /\ term = STOP -> Accept
      [] state = 3 /\ term = Operand -> Shift(4)
      [] state = 4 /\ term = STOP -> Reduce(ExpressionP1, 3)
      [] OTHER -> Error

\* the goto table with no entry at all
CalculatorGotosNone(state, nonterm) == GotoPanic

\* PARSER_DEFINITION.gotos[state][nonterm].unwrap(); GotoPanic for None
CalculatorGotos(state, nonterm) ==
    IF state = 0 /\ nonterm = Expression THEN 2 ELSE GotoPanic

\* PARSER_DEFINITION.token_recognizers[state]: the kinds the lexer tries
CalculatorRecognizers(state) ==
    CASE state = 0 -> {Operand}
      [] state = 1 -> {Operator}
      [] state = 2 -> {STOP}
      [] state = 3 -> {Operand}
      [] state = 4 -> {STOP}

\* the left-hand side of a production of the calculator grammar
CalculatorLhs(prod) == Expression

\* the kind of the token at the position; STOP once the input is exhausted
LRTokenAt(stream, pos) == IF pos > Len(stream) THEN STOP ELSE stream[pos]

LRTop == lr.stack[Len(lr.stack)]

LRToken == LRTokenAt(lr.stream, lr.pos)

LRAction == CalculatorActions(LRTop, LRToken)

\* DefaultBuilder::reduce_action: the three popped symbols must be
\* Operand, Operator, Operand
ReduceMatches(res_stack) ==
    /\ Len(res_stack) >= 3
    /\ SubSeq(res_stack, Len(res_stack) - 2, Len(res_stack))
           = <<"Operand", "Operator", "Operand">>

SymbolOf(term) == IF term = Operand THEN "Operand" ELSE "Operator"

InitLR ==
    /\ def = "Calc"
    /\ input = <<>>
    /\ partial_parse = FALSE
    /\ heads = <<DefaultHead>>
    /\ edges = <<>>
    /\ parents = <<>>
    /\ trees = <<>>
    /\ frontier_base = EmptyMap
    /\ frontier = EmptyMap
    /\ subfrontier = EmptyMap
    /\ pending_reductions = <<>>
    /\ pending_shifts = <<>>
    /\ accepted_heads = <<>>
    /\ frontier_idx = 0
    /\ pc = "idle"
    /\ result = "none"
    /\ forest = <<>>
    /\ hist = EmptyHist
    /\ \E s \in SeqsUpTo({STOP, Operand, Operator}, MaxLRLen) :
          lr = [stream |-> s, pos |-> 1, stack |-> <<0>>, res_stack |-> <<>>,
                events |-> <<>>, read |-> <<>>, status |-> "running"]
    /\ tbl = TblIdle
    /\ gen = GenIdle
    /\ look = LookIdle

\* Shift: push the target state and the token, advance the input
LRShift ==
    /\ lr.status = "running"
    /\ LRAction.type = "Shift"
    /\ lr' = [lr EXCEPT !.stack = Append(@, LRAction.state),
                        !.res_stack = Append(@, SymbolOf(LRToken)),
                        !.pos = @ + 1,
                        !.read = Append(@, LRToken),
                        !.events = Append(@, <<"shift", LRToken>>)]
    /\ UNCHANGED <<glrvars, tbl, gen, look>>

\* Reduce(p, n): pop n pairs, push GOTO(new top, LHS(p)), call the builder
LRReduce ==
    /\ lr.status = "running"
    /\ LRAction.type = "Reduce"
    /\ LET n == LRAction.length
           popped == SubSeq(lr.stack, 1, Len(lr.stack) - n)
           from == popped[Len(popped)]
           to == CalculatorGotos(from, CalculatorLhs(LRAction.prod))
       IN lr' = IF to = GotoPanic
                THEN [lr EXCEPT !.status = "goto_none"]
                ELSE IF ~ReduceMatches(lr.res_stack)
                THEN [lr EXCEPT !.status = "builder_panic"]
                ELSE [lr EXCEPT
                        !.stack = Append(popped, to),
                        !.res_stack = Append(SubSeq(@, 1, Len(@) - 3),
                                             "Expression"),
                        !.events = @ \o <<<<"reduce", LRAction.prod, n>>,
                                          <<"goto", from,
                                            CalculatorLhs(LRAction.prod), to>>>>]
    /\ UNCHANGED <<glrvars, tbl, gen, look>>

LRAccept ==
    /\ lr.status = "running"
    /\ LRAction.type = "Accept"
    /\ lr' = [lr EXCEPT !.status = "accepted",
                        !.read = Append(@, LRToken),
                        !.events = Append(@, <<"accept">>)]
    /\ UNCHANGED <<glrvars, tbl, gen, look>>

\* Error: the parse fails; no token of the state's recognizers matched
LRError ==
    /\ lr.status = "running"
    /\ LRAction.type = "Error"
    /\ lr' = [lr EXCEPT !.status = "error",
                        !.read = Append(@, LRToken)]
    /\ UNCHANGED <<glrvars, tbl, gen, look>>

NextLR ==
    \/ LRShift
    \/ LRReduce
    \/ LRAccept
    \/ LRError

SpecLR == InitLR /\ [][NextLR]_vars

\* the LR loop is sequential: an enabled step is eventually taken
FairSpecLR == SpecLR /\ WF_vars(NextLR)

(***************************************************************************)
(* The FIRST/FOLLOW engine of calculate_lr_tables (src/table.rs)           *)
(*                                                                         *)
(* A grammar holds its terminals at the symbol indexes 0..terminals-1 (0   *)
(* is STOP) and its non-terminals after them (EMPTY, AUG, then the rules); *)
(* production 0 is the augmented one.                                      *)
(***************************************************************************)
Production(nonterminal, rhs) == [nonterminal |-> nonterminal, rhs |-> rhs]

\* E: T Ep; Ep: "+" T Ep | EMPTY; T: F Tp; Tp: "*" F Tp | EMPTY;
\* F: "(" E ")" | "id";  terminals STOP + * ( ) id are 0..5, the
\* non-terminals EMPTY AUG E Ep T Tp F are 6..12
test_grammar ==
    [terminals |-> 6, nonterminals |-> 7, empty_index |-> 6, start_index |-> 8,
     stop_index |-> 0,
     productions |-> <<Production(1, <<8>>),
                       Production(2, <<10, 9>>),
                       Production(3, <<1, 10, 9>>),
                       Production(3, <<6>>),
                       Production(4, <<12, 11>>),
                       Production(5, <<2, 12, 11>>),
                       Production(5, <<6>>),
                       Production(6, <<3, 8, 4>>),
                       Production(6, <<5>>)>>]

\* the right-hand sides of the generated grammars: sequences over the
\* terminal "a" (1) and the rules A (4) and B (5), or the single EMPTY (2)
GenRhs == SeqsUpTo({1, 4, 5}, MaxRhs) \cup {<<2>>}

GenProductions == {Production(n, r) : n \in {2, 3}, r \in GenRhs}

\* the symbols a sequence of productions refers to
RhsSymbols(ps) == UNION {{ps[i].rhs[j] : j \in 1..Len(ps[i].rhs)} : i \in 1..Len(ps)}

\* every rule that is referred to has a production, and A is the first rule
WellFormed(ps) ==
    /\ ps[1].nonterminal = 2
    /\ 5 \in RhsSymbols(ps) => \E i \in 1..Len(ps) : ps[i].nonterminal = 3

\* the grammar STOP, "a"; EMPTY, AUG, A (, B) with the given productions
GenGrammar(ps) ==
    [terminals |-> 2,
     nonterminals |-> IF \E i \in 1..Len(ps) : ps[i].nonterminal = 3 THEN 4 ELSE 3,
     empty_index |-> 2, start_index |-> 4, stop_index |-> 0,
     productions |-> <<Production(1, <<4>>)>> \o ps]

GenGrammars ==
    {GenGrammar(ps) : ps \in {q \in UNION {[1..k -> GenProductions] : k \in 1..MaxProds} :
                                  WellFormed(q)}}

\* grammar.nonterm_to_symbol
nonterm_to_symbol(grammar, nonterminal) == nonterminal + grammar.terminals

Symbols(grammar) == 0..(grammar.terminals + grammar.nonterminals - 1)

\* firsts that never adds EMPTY for a sequence deriving EMPTY
RECURSIVE firsts_without_empty(_, _, _)
firsts_without_empty(grammar, sets, symbols) ==
    CHOOSE r \in
        {IF s = <<>> THEN {}
         ELSE (sets[s[1]] \ {grammar.empty_index})
              \cup (IF grammar.empty_index \in sets[s[1]]
                    THEN firsts_without_empty(grammar, sets, Tail(s))
                    ELSE {}) : s \in {symbols}} : TRUE

\* firsts that goes on after a symbol whose set lacks EMPTY
RECURSIVE firsts_through_all(_, _, _)
firsts_through_all(grammar, sets, symbols) ==
    CHOOSE r \in
        {IF s = <<>> THEN {grammar.empty_index}
         ELSE (sets[s[1]] \ {grammar.empty_index})
              \cup (firsts_through_all(grammar, sets, Tail(s))
                        \ (IF grammar.empty_index \in sets[s[1]] THEN {}
                           ELSE {grammar.empty_index})) : s \in {symbols}} : TRUE

\* FIRST of a sequence of symbols: the loop stops at the first symbol whose
\* set lacks EMPTY; EMPTY is added when no symbol stopped it
RECURSIVE firsts(_, _, _)
firsts(grammar, sets, symbols) ==
    CHOOSE r \in
        {IF s = <<>> THEN {grammar.empty_index}
         ELSE (sets[s[1]] \ {grammar.empty_index})
              \cup (IF grammar.empty_index \in sets[s[1]]
                    THEN firsts(grammar, sets, Tail(s))
                    ELSE {}) : s \in {symbols}} : TRUE

\* first_sets before its loop: {t} for a terminal, {} for a non-terminal,
\* and EMPTY derives EMPTY
FirstInit(grammar) ==
    [s \in Symbols(grammar) |->
        IF s = grammar.empty_index THEN {s}
        ELSE IF s < grammar.terminals THEN {s} ELSE {}]

\* FirstProduction that keeps only the last production's verdict
FirstProductionLastOnly(grammar, st, production) ==
    LET lhs_nonterm == nonterm_to_symbol(grammar, production.nonterminal)
        rhs_firsts == firsts(grammar, st.sets, production.rhs)
        new == st.sets[lhs_nonterm] \cup rhs_firsts
    IN [sets |-> [st.sets EXCEPT ![lhs_nonterm] = new],
        additions |-> Cardinality(st.sets[lhs_nonterm]) < Cardinality(new)]

\* the body of the loop over the productions in first_sets
FirstProduction(grammar, st, production) ==
    LET lhs_nonterm == nonterm_to_symbol(grammar, production.nonterminal)
        rhs_firsts == firsts(grammar, st.sets, production.rhs)
        new == st.sets[lhs_nonterm] \cup rhs_firsts
    IN [sets |-> [st.sets EXCEPT ![lhs_nonterm] = new],
        additions |-> st.additions
                        \/ Cardinality(st.sets[lhs_nonterm]) < Cardinality(new)]

RECURSIVE FirstProductions(_, _, _)
FirstProductions(grammar, st, productions) ==
    CHOOSE r \in
        {IF ps = <<>> THEN s
         ELSE FirstProductions(grammar, FirstProduction(grammar, s, ps[1]), Tail(ps))
         : s \in {st}, ps \in {productions}} : TRUE

\* one iteration of `while additions` in first_sets
FirstPass(grammar, sets) ==
    FirstProductions(grammar, [sets |-> sets, additions |-> FALSE],
                     grammar.productions)

RECURSIVE FirstLoop(_, _)
FirstLoop(grammar, st) ==
    CHOOSE r \in
        {IF ~s.additions THEN s.sets ELSE FirstLoop(grammar, FirstPass(grammar, s.sets))
         : s \in {st}} : TRUE

first_sets(grammar) ==
    FirstLoop(grammar, [sets |-> FirstInit(grammar), additions |-> TRUE])

\* check_empty_sets that accepts every grammar
check_empty_sets_never(grammar, sets) == 0 - 1

\* the symbol check_empty_sets panics for, or -1 when it returns
check_empty_sets(grammar, sets) ==
    LET empty == {s \in Symbols(grammar) : sets[s] = {}}
    IN IF empty = {} THEN 0 - 1
       ELSE CHOOSE s \in empty : \A t \in empty : s <= t

\* follow_sets before its loop: STOP follows the start symbol
FollowInit(grammar, first) ==
    [s \in DOMAIN first |-> IF s = grammar.start_index THEN {grammar.stop_index}
                            ELSE {}]

\* FollowOfRest that does not filter EMPTY out of the FIRST sets
RECURSIVE FollowOfRestKeepsEmpty(_, _, _)
FollowOfRestKeepsEmpty(grammar, first, rest) ==
    CHOOSE r \in
        {IF s = <<>> THEN [add |-> {}, reached_end |-> TRUE]
         ELSE IF grammar.empty_index \in first[s[1]]
              THEN LET more == FollowOfRestKeepsEmpty(grammar, first, Tail(s))
                   IN [add |-> first[s[1]] \cup more.add,
                       reached_end |-> more.reached_end]
              ELSE [add |-> first[s[1]], reached_end |-> FALSE] : s \in {rest}} : TRUE

\* Rule 2: what the symbols right of a position give to the symbol at it,
\* and whether the loop over them reached the end (no break_out)
RECURSIVE FollowOfRest(_, _, _)
FollowOfRest(grammar, first, rest) ==
    CHOOSE r \in
        {IF s = <<>> THEN [add |-> {}, reached_end |-> TRUE]
         ELSE IF grammar.empty_index \in first[s[1]]
              THEN LET more == FollowOfRest(grammar, first, Tail(s))
                   IN [add |-> (first[s[1]] \ {grammar.empty_index}) \cup more.add,
                       reached_end |-> more.reached_end]
              ELSE [add |-> first[s[1]] \ {grammar.empty_index},
                    reached_end |-> FALSE] : s \in {rest}} : TRUE

\* FollowSymbol without Rule 3
FollowSymbolNoRule3(grammar, first, st, production, idx) ==
    LET lhs_symbol == nonterm_to_symbol(grammar, production.nonterminal)
        rhs_symbol == production.rhs[idx]
        rest == FollowOfRest(grammar, first,
                             SubSeq(production.rhs, idx + 1, Len(production.rhs)))
        new == st.sets[rhs_symbol] \cup rest.add
    IN [sets |-> [st.sets EXCEPT ![rhs_symbol] = new],
        additions |-> st.additions
                        \/ Cardinality(new) > Cardinality(st.sets[rhs_symbol])]

\* the body of `for idx in 0..production.rhs.len()` in follow_sets
FollowSymbol(grammar, first, st, production, idx) ==
    LET lhs_symbol == nonterm_to_symbol(grammar, production.nonterminal)
        rhs_symbol == production.rhs[idx]
        rest == FollowOfRest(grammar, first,
                             SubSeq(production.rhs, idx + 1, Len(production.rhs)))
        rule2 == st.sets[rhs_symbol] \cup rest.add
        lhs_follows == IF lhs_symbol = rhs_symbol THEN rule2 ELSE st.sets[lhs_symbol]
        new == IF rest.reached_end THEN rule2 \cup lhs_follows ELSE rule2
    IN [sets |-> [st.sets EXCEPT ![rhs_symbol] = new],
        additions |-> st.additions
                        \/ Cardinality(new) > Cardinality(st.sets[rhs_symbol])]

RECURSIVE FollowProduction(_, _, _, _, _)
FollowProduction(grammar, first, st, production, idx) ==
    CHOOSE r \in
        {IF idx > Len(production.rhs) THEN s
         ELSE FollowProduction(grammar, first,
                               FollowSymbol(grammar, first, s, production, idx),
                               production, idx + 1) : s \in {st}} : TRUE

RECURSIVE FollowProductions(_, _, _, _)
FollowProductions(grammar, first, st, productions) ==
    CHOOSE r \in
        {IF ps = <<>> THEN s
         ELSE FollowProductions(grammar, first,
                                FollowProduction(grammar, first, s, ps[1], 1),
                                Tail(ps))
         : s \in {st}, ps \in {productions}} : TRUE

\* one iteration of `while additions` in follow_sets
FollowPass(grammar, first, sets) ==
    FollowProductions(grammar, first, [sets |-> sets, additions |-> FALSE],
                      grammar.productions)

RECURSIVE FollowLoop(_, _, _)
FollowLoop(grammar, first, st) ==
    CHOOSE r \in
        {IF ~s.additions THEN s.sets
         ELSE FollowLoop(grammar, first, FollowPass(grammar, first, s.sets))
         : s \in {st}} : TRUE

follow_sets(grammar, first) ==
    FollowLoop(grammar, first,
               [sets |-> FollowInit(grammar, first), additions |-> TRUE])

(***************************************************************************)
(* LRItem, LRState and closure                                             *)
(*                                                                         *)
(* An Option is a sequence: <<>> is None and <<x>> is Some(x).  ProdIndex  *)
(* counts from 0: production p is grammar.productions[p + 1].              *)
(***************************************************************************)
\* LRItem::new
LRItemNew(prod) == [prod |-> prod, position |-> 0, follow |-> {}]

\* LRItem::new_follow
LRItemNewFollow(prod, follow) == [prod |-> prod, position |-> 0, follow |-> follow]

\* LRItem::add_follow
add_follow(item, symbol) == [item EXCEPT !.follow = @ \cup {symbol}]

\* grammar.productions[prod].rhs
RhsOf(grammar, prod) == grammar.productions[prod + 1].rhs

\* LRItem::symbol_at_position: rhs.get(self.position)
symbol_at_position(grammar, item) ==
    IF item.position < Len(RhsOf(grammar, item.prod))
    THEN <<RhsOf(grammar, item.prod)[item.position + 1]>>
    ELSE <<>>

\* next_item that also steps from the last position
next_item_past_end(grammar, item) ==
    IF item.position <= Len(RhsOf(grammar, item.prod))
    THEN <<[item EXCEPT !.position = @ + 1]>>
    ELSE <<>>

\* LRItem::next_item
next_item(grammar, item) ==
    IF item.position < Len(RhsOf(grammar, item.prod))
    THEN <<[prod |-> item.prod, position |-> item.position + 1,
            follow |-> item.follow]>>
    ELSE <<>>

\* grammar.is_nonterm
is_nonterm(grammar, symbol) == symbol >= grammar.terminals

\* grammar.nonterminals()[nonterm].productions, as ProdIndex values
ProductionsOf(grammar, symbol) ==
    SelectSeq([i \in 1..Len(grammar.productions) |-> i - 1],
              LAMBDA q : nonterm_to_symbol(grammar,
                             grammar.productions[q + 1].nonterminal) = symbol)

\* HashSet<LRItem>::insert: items are equal when production and position are
\* equal, and an equal item already in the set is kept
InsertItem(items, item) ==
    IF \E i \in 1..Len(items) :
          items[i].prod = item.prod /\ items[i].position = item.position
    THEN items
    ELSE Append(items, item)

RECURSIVE InsertItems(_, _, _)
InsertItems(items, prods, follow) ==
    CHOOSE r \in
        {IF ps = <<>> THEN acc
         ELSE InsertItems(InsertItem(acc, LRItemNewFollow(ps[1], follow)),
                          Tail(ps), follow)
         : acc \in {items}, ps \in {prods}} : TRUE

\* the body of `for item in &state.items` in closure
ClosureItem(grammar, first, new_items, item) ==
    LET at == symbol_at_position(grammar, item)
    IN IF at = <<>> \/ ~is_nonterm(grammar, at[1]) THEN new_items
       ELSE LET rhs == RhsOf(grammar, item.prod)
                rest == firsts(grammar, first,
                               SubSeq(rhs, item.position + 2, Len(rhs)))
                new_follow ==
                    IF item.position + 1 < Len(rhs)
                    THEN IF grammar.empty_index \in rest
                         THEN rest \cup item.follow ELSE rest
                    ELSE item.follow
            IN InsertItems(new_items, ProductionsOf(grammar, at[1]), new_follow)

\* one iteration of the loop of closure up to its todo!(): the new items,
\* for the items of the state taken in the given order
RECURSIVE closure(_, _, _, _)
closure(grammar, first, new_items, items) ==
    CHOOSE r \in
        {IF its = <<>> THEN acc
         ELSE closure(grammar, first,
                      ClosureItem(grammar, first, acc, its[1]), Tail(its))
         : acc \in {new_items}, its \in {items}} : TRUE

InitTbl ==
    /\ def = "Calc"
    /\ input = <<>>
    /\ partial_parse = FALSE
    /\ heads = <<DefaultHead>>
    /\ edges = <<>>
    /\ parents = <<>>
    /\ trees = <<>>
    /\ frontier_base = EmptyMap
    /\ frontier = EmptyMap
    /\ subfrontier = EmptyMap
    /\ pending_reductions = <<>>
    /\ pending_shifts = <<>>
    /\ accepted_heads = <<>>
    /\ frontier_idx = 0
    /\ pc = "idle"
    /\ result = "none"
    /\ forest = <<>>
    /\ hist = EmptyHist
    /\ lr = LRIdle
    /\ \E g \in GenGrammars \cup {test_grammar} :
          tbl = [TblIdle EXCEPT !.grammar = g, !.pc = "first_sets"]
    /\ gen = GenIdle
    /\ look = LookIdle

\* first_sets up to its loop
FirstSetsStart ==
    /\ tbl.pc = "first_sets"
    /\ tbl' = [tbl EXCEPT !.first_sets = FirstInit(tbl.grammar),
                          !.additions = TRUE,
                          !.pc = "first_loop"]
    /\ UNCHANGED <<glrvars, lr, gen, look>>

\* while additions { for production in productions { ... } }
FirstSetsPass ==
    /\ tbl.pc = "first_loop"
    /\ tbl.additions
    /\ \E st \in {FirstPass(tbl.grammar, tbl.first_sets)} :
          tbl' = [tbl EXCEPT !.first_sets = st.sets,
                             !.additions = st.additions,
                             !.passes = @ + 1]
    /\ UNCHANGED <<glrvars, lr, gen, look>>

FirstSetsReturn ==
    /\ tbl.pc = "first_loop"
    /\ ~tbl.additions
    /\ tbl' = [tbl EXCEPT !.pc = "check_empty_sets", !.passes = 0]
    /\ UNCHANGED <<glrvars, lr, gen, look>>

\* check_empty_sets: panic for the first symbol with an empty FIRST set
CheckEmptySets ==
    /\ tbl.pc = "check_empty_sets"
    /\ \E s \in {check_empty_sets(tbl.grammar, tbl.first_sets)} :
          tbl' = IF s >= 0
                 THEN [tbl EXCEPT !.pc = "panicked", !.panic = "first_set_empty",
                                  !.symbol = s]
                 ELSE [tbl EXCEPT !.pc = "follow_sets"]
    /\ UNCHANGED <<glrvars, lr, gen, look>>

\* follow_sets up to its loop
FollowSetsStart ==
    /\ tbl.pc = "follow_sets"
    /\ tbl' = [tbl EXCEPT !.follow_sets = FollowInit(tbl.grammar, tbl.first_sets),
                          !.additions = TRUE,
                          !.pc = "follow_loop"]
    /\ UNCHANGED <<glrvars, lr, gen, look>>

FollowSetsPass ==
    /\ tbl.pc = "follow_loop"
    /\ tbl.additions
    /\ \E st \in {FollowPass(tbl.grammar, tbl.first_sets, tbl.follow_sets)} :
          tbl' = [tbl EXCEPT !.follow_sets = st.sets,
                             !.additions = st.additions,
                             !.passes = @ + 1]
    /\ UNCHANGED <<glrvars, lr, gen, look>>

FollowSetsReturn ==
    /\ tbl.pc = "follow_loop"
    /\ ~tbl.additions
    /\ tbl' = [tbl EXCEPT !.pc = "states"]
    /\ UNCHANGED <<glrvars, lr, gen, look>>

\* state 0 gets its kernel item and is popped; closure() collects the new
\* items of its first iteration and ends in todo!()
StatesClosure ==
    /\ tbl.pc = "states"
    /\ tbl' = [tbl EXCEPT
                 !.items = {LRItemNew(0)},
                 !.new_items = closure(tbl.grammar, tbl.first_sets, <<>>,
                                       <<LRItemNew(0)>>),
                 !.closure_passes = 1,
                 !.pc = "panicked", !.panic = "todo"]
    /\ UNCHANGED <<glrvars, lr, gen, look>>

NextTbl ==
    \/ FirstSetsStart
    \/ FirstSetsPass
    \/ FirstSetsReturn
    \/ CheckEmptySets
    \/ FollowSetsStart
    \/ FollowSetsPass
    \/ FollowSetsReturn
    \/ StatesClosure

SpecTbl == InitTbl /\ [][NextTbl]_vars

\* calculate_lr_tables is sequential: an enabled step is eventually taken
FairSpecTbl == SpecTbl /\ WF_vars(NextTbl)

(***************************************************************************)
(* LRItem on its own: items are built from LRItem::new by add_follow and   *)
(* next_item, and symbol_at_position is asked at a position that is set    *)
(* directly, as tests::test_symbol_at_position does                        *)
(***************************************************************************)
ItemGrammars == {test_grammar} \cup {GenGrammar(<<Production(2, r)>>) : r \in GenRhs}

InitItem ==
    /\ def = "Calc"
    /\ input = <<>>
    /\ partial_parse = FALSE
    /\ heads = <<DefaultHead>>
    /\ edges = <<>>
    /\ parents = <<>>
    /\ trees = <<>>
    /\ frontier_base = EmptyMap
    /\ frontier = EmptyMap
    /\ subfrontier = EmptyMap
    /\ pending_reductions = <<>>
    /\ pending_shifts = <<>>
    /\ accepted_heads = <<>>
    /\ frontier_idx = 0
    /\ pc = "idle"
    /\ result = "none"
    /\ forest = <<>>
    /\ hist = EmptyHist
    /\ lr = LRIdle
    /\ \E g \in ItemGrammars : \E prod \in 0..(Len(g.productions) - 1) :
          tbl = [TblIdle EXCEPT !.grammar = g, !.pc = "item",
                                !.item = LRItemNew(prod)]
    /\ gen = GenIdle
    /\ look = LookIdle

\* item.add_follow(symbol)
ItemAddFollow ==
    /\ tbl.pc = "item"
    /\ \E symbol \in 0..(tbl.grammar.terminals - 1) :
          /\ symbol \notin tbl.item.follow
          /\ tbl' = [tbl EXCEPT !.item = add_follow(@, symbol)]
    /\ UNCHANGED <<glrvars, lr, gen, look>>

\* item.next_item(grammar): the item moves on when the result is Some
ItemNext ==
    /\ tbl.pc = "item"
    /\ \E r \in {next_item(tbl.grammar, tbl.item)} :
          tbl' = [tbl EXCEPT !.next = <<[from |-> tbl.item, to |-> r]>>,
                             !.item = IF r = <<>> THEN @ ELSE r[1]]
    /\ UNCHANGED <<glrvars, lr, gen, look>>

\* item.position = position; item.symbol_at_position(grammar), on a copy
ItemSymbolAt ==
    /\ tbl.pc = "item"
    /\ \E position \in 0..(MaxRhs + 2) :
          tbl' = [tbl EXCEPT !.probe =
                     <<[prod |-> tbl.item.prod, position |-> position,
                        symbol |-> symbol_at_position(tbl.grammar,
                                      [tbl.item EXCEPT !.position = position])]>>]
    /\ UNCHANGED <<glrvars, lr, gen, look>>

NextItem ==
    \/ ItemAddFollow
    \/ ItemNext
    \/ ItemSymbolAt

SpecItem == InitItem /\ [][NextItem]_vars

(***************************************************************************)
(* generate_parser                                                         *)
(*                                                                         *)
(* The file system and the grammar are inputs: whether the grammar file    *)
(* exists and has a file name, whether it reads and parses, how many       *)
(* conflicts LRTable::get_conflicts returns, whether the generate_*        *)
(* functions succeed, whether settings ask for the actions file, and       *)
(* whether create_dir_all and write succeed.                               *)
(***************************************************************************)
GenErr(g, message) == [g EXCEPT !.pc = "done", !.result = "Err", !.error = message]

InitGen ==
    /\ def = "Calc"
    /\ input = <<>>
    /\ partial_parse = FALSE
    /\ heads = <<DefaultHead>>
    /\ edges = <<>>
    /\ parents = <<>>
    /\ trees = <<>>
    /\ frontier_base = EmptyMap
    /\ frontier = EmptyMap
    /\ subfrontier = EmptyMap
    /\ pending_reductions = <<>>
    /\ pending_shifts = <<>>
    /\ accepted_heads = <<>>
    /\ frontier_idx = 0
    /\ pc = "idle"
    /\ result = "none"
    /\ forest = <<>>
    /\ hist = EmptyHist
    /\ lr = LRIdle
    /\ tbl = TblIdle
    /\ \E exists \in BOOLEAN, named \in BOOLEAN, parses \in BOOLEAN,
          conflicts \in 0..MaxConflicts, generates \in BOOLEAN,
          actions_setting \in BOOLEAN, dir_ok \in BOOLEAN, write_ok \in BOOLEAN :
          gen = [GenIdle EXCEPT !.exists = exists, !.named = named,
                                !.parses = parses, !.conflicts = conflicts,
                                !.generates = generates, !.actions = actions_setting,
                                !.dir_ok = dir_ok, !.write_ok = write_ok,
                                !.pc = "start"]
    /\ look = LookIdle

\* if !grammar_path.exists() ...; grammar_path.file_name().ok_or_else(..)?
GenCheckPath ==
    /\ gen.pc = "start"
    /\ gen' = IF ~gen.exists THEN GenErr(gen, "Grammar file doesn't exist.")
              ELSE IF ~gen.named THEN GenErr(gen, "Invalid grammar file name.")
              ELSE [gen EXCEPT !.pc = "read"]
    /\ UNCHANGED <<glrvars, lr, tbl, look>>

\* read_to_string(grammar_path)? and grammar_input.parse()?
GenReadGrammar ==
    /\ gen.pc = "read"
    /\ gen' = IF ~gen.parses THEN GenErr(gen, "grammar")
              ELSE [gen EXCEPT !.pc = "table"]
    /\ UNCHANGED <<glrvars, lr, tbl, look>>

\* the conflict check that lets every table pass
GenCheckConflictsSkipped ==
    /\ gen.pc = "table"
    /\ gen' = [gen EXCEPT !.pc = "generate"]
    /\ UNCHANGED <<glrvars, lr, tbl, look>>

\* LRTable::new, get_conflicts and the return on a non-empty list
GenCheckConflicts ==
    /\ gen.pc = "table"
    /\ gen' = IF gen.conflicts # 0
              THEN [GenErr(gen, "Grammar is not deterministic. There are conflicts.")
                       EXCEPT !.conflicts_checked = TRUE, !.report_printed = TRUE]
              ELSE [gen EXCEPT !.conflicts_checked = TRUE, !.pc = "generate"]
    /\ UNCHANGED <<glrvars, lr, tbl, look>>

\* the generate_* calls that build the ast; generate_parser_actions, the
\* last of them, writes the actions file
GenGenerate ==
    /\ gen.pc = "generate"
    /\ gen' = IF ~gen.generates THEN GenErr(gen, "generate")
              ELSE [gen EXCEPT !.actions_written = gen.actions,
                               !.pc = "create_dir"]
    /\ UNCHANGED <<glrvars, lr, tbl, look>>

\* std::fs::create_dir_all(out_dir)
GenCreateDir ==
    /\ gen.pc = "create_dir"
    /\ gen' = IF ~gen.dir_ok THEN GenErr(gen, "Cannot create folders")
              ELSE [gen EXCEPT !.dir_created = TRUE, !.pc = "write"]
    /\ UNCHANGED <<glrvars, lr, tbl, look>>

\* std::fs::write(&out_file, ..) and Ok(())
GenWrite ==
    /\ gen.pc = "write"
    /\ gen' = IF ~gen.write_ok THEN GenErr(gen, "Cannot write parser file")
              ELSE [gen EXCEPT !.parser_written = TRUE, !.pc = "done",
                               !.result = "Ok"]
    /\ UNCHANGED <<glrvars, lr, tbl, look>>

NextGen ==
    \/ GenCheckPath
    \/ GenReadGrammar
    \/ GenCheckConflicts
    \/ GenGenerate
    \/ GenCreateDir
    \/ GenWrite

SpecGen == InitGen /\ [][NextGen]_vars

(***************************************************************************)
(* find_lookaheads with a layout parser                                    *)
(*                                                                         *)
(* The inputs of a call: whether the parser has a layout parser, the LR    *)
(* state of the head and the layout state, how many tokens the lexer finds *)
(* at its first and at its second attempt, what the layout parser returns  *)
(* (Err, Ok(None) or Ok(Some(layout)) with the length of the layout),      *)
(* partial_parse and whether STOP is among the expected tokens.            *)
(***************************************************************************)
\* Err is [ok |-> FALSE], Ok(None) has the value <<>>, Ok(Some(layout)) the
\* value <<layout.len()>>
LayoutResults ==
    {[ok |-> FALSE, value |-> <<>>], [ok |-> TRUE, value |-> <<>>]}
        \cup {[ok |-> TRUE, value |-> <<n>>] : n \in 0..MaxLook}

InitLook ==
    /\ def = "Calc"
    /\ input = <<>>
    /\ partial_parse \in BOOLEAN
    /\ heads = <<DefaultHead>>
    /\ edges = <<>>
    /\ parents = <<>>
    /\ trees = <<>>
    /\ frontier_base = EmptyMap
    /\ frontier = EmptyMap
    /\ subfrontier = EmptyMap
    /\ pending_reductions = <<>>
    /\ pending_shifts = <<>>
    /\ accepted_heads = <<>>
    /\ frontier_idx = 0
    /\ pc = "idle"
    /\ result = "none"
    /\ forest = <<>>
    /\ hist = EmptyHist
    /\ lr = LRIdle
    /\ tbl = TblIdle
    /\ gen = GenIdle
    /\ \E layout_parser \in BOOLEAN, state \in 0..MaxLook,
          default_layout \in 0..MaxLook, lexer \in [1..2 -> 0..MaxLook],
          layout \in LayoutResults, expected_stop \in BOOLEAN :
          look = [LookIdle EXCEPT !.layout_parser = layout_parser,
                                  !.state = state, !.entry_state = state,
                                  !.default_layout = default_layout,
                                  !.lexer = lexer, !.layout = layout,
                                  !.expected_stop = expected_stop,
                                  !.layout_parsing = TRUE, !.pc = "lex"]

\* one iteration of the loop up to the layout parser: next_tokens, the
\* return of the tokens, layout_parsing = false
LookLex ==
    /\ look.pc = "lex"
    /\ LET n == look.lexer[IF look.lexed = <<>> THEN 1 ELSE 2]
           l1 == [look EXCEPT !.lexed = Append(@, n)]
       IN look' = IF n > 0 THEN [l1 EXCEPT !.tokens = n, !.pc = "returned"]
                  ELSE IF look.layout_parsing
                       THEN [l1 EXCEPT !.layout_parsing = FALSE,
                                       !.pc = IF look.layout_parser THEN "layout"
                                              ELSE "no_tokens"]
                       ELSE [l1 EXCEPT !.pc = "no_tokens"]
    /\ UNCHANGED <<glrvars, lr, tbl, gen>>

\* let current_state = head.state(); head.set_state(default_layout) and the
\* call of the layout parser with the head as its context
LookLayoutCall ==
    /\ look.pc = "layout"
    /\ look' = [look EXCEPT !.current_state = <<look.state>>,
                            !.state = look.default_layout,
                            !.layout_calls = @ + 1,
                            !.pc = "layout_parse"]
    /\ UNCHANGED <<glrvars, lr, tbl, gen>>

\* LookLayoutReturn without head.set_state(current_state)
LookLayoutReturnKeepsState ==
    /\ look.pc = "layout_parse"
    /\ \E left \in 0..MaxLook :
          LET p == look.layout
              l1 == [look EXCEPT !.left_state = <<left>>, !.state = left]
          IN look' = IF p.ok /\ p.value # <<>> /\ p.value[1] > 0
                     THEN [l1 EXCEPT !.layout_ahead = p.value,
                                     !.position = @ + p.value[1],
                                     !.pc = "lex"]
                     ELSE [l1 EXCEPT !.pc = "no_tokens"]
    /\ UNCHANGED <<glrvars, lr, tbl, gen>>

\* the layout parser returns, having left the context in some state;
\* head.set_state(current_state); a non-empty layout is set as layout_ahead
\* and the loop continues
LookLayoutReturn ==
    /\ look.pc = "layout_parse"
    /\ \E left \in 0..MaxLook :
          LET p == look.layout
              l1 == [look EXCEPT !.left_state = <<left>>,
                                 !.state = look.current_state[1]]
          IN look' = IF p.ok /\ p.value # <<>> /\ p.value[1] > 0
                     THEN [l1 EXCEPT !.layout_ahead = p.value,
                                     !.position = @ + p.value[1],
                                     !.pc = "lex"]
                     ELSE [l1 EXCEPT !.pc = "no_tokens"]
    /\ UNCHANGED <<glrvars, lr, tbl, gen>>

\* after the loop: STOP for a partial parse that expects it, else no token
LookNoTokens ==
    /\ look.pc = "no_tokens"
    /\ look' = [look EXCEPT
                  !.tokens = IF partial_parse /\ look.expected_stop THEN 1 ELSE 0,
                  !.pc = "returned"]
    /\ UNCHANGED <<glrvars, lr, tbl, gen>>

NextLook ==
    \/ LookLex
    \/ LookLayoutCall
    \/ LookLayoutReturn
    \/ LookNoTokens

SpecLook == InitLook /\ [][NextLook]_vars



(***************************************************************************)
(* Properties of the GLR driver                                            *)
(***************************************************************************)
\* the possibilities (SPPFTree values) of a Parent, in order
PossOf(p) ==
    [i \in 1..Len(parents[p].possibilities) |-> trees[parents[p].possibilities[i]]]

\* the derivation below a tree as a bracketed token sequence: 100 + prod
\* opens a NonTerm node, 99 closes it; each child Parent is followed through
\* its first possibility
RECURSIVE Bracketed(_, _)
Bracketed(t, fuel) ==
    IF fuel = 0 THEN <<>>
    ELSE IF trees[t].kind = "Term" THEN <<trees[t].token.kind>>
    ELSE <<100 + trees[t].prod>>
         \o Flatten([i \in 1..Len(trees[t].children) |->
                IF parents[trees[t].children[i]].possibilities = <<>> THEN <<>>
                ELSE Bracketed(parents[trees[t].children[i]].possibilities[1],
                               fuel - 1)])
         \o <<99>>

\* the heads that have an edge to themselves
SelfLoops == {e \in 1..Len(edges) : edges[e].source = edges[e].target}

\* C1: when the frontier base has become empty and no head took an Accept
\* action, parse_with_context returns Err; it returns Ok only when at least
\* one head accepted.
C1_ErrWithoutAccept ==
    pc = "done" =>
        /\ (accepted_heads = <<>> => result = "Err")
        /\ (result = "Ok" => accepted_heads # <<>>)

Input1Plus2Times3 == <<Number, Add, Number, Mul, Number>>

\* C2: with the table of CalcParserDefinition the input Number Add Number Mul
\* Number ends with exactly one accepted head whose single edge leads to the
\* start head and carries exactly two possibilities, one for E: E Add E and
\* one for E: E Mul E, and the Forest has exactly 2 solutions.
C2_CalcTwoSolutions ==
    (pc = "done" /\ def = "Calc" /\ input = Input1Plus2Times3) =>
        /\ Len(accepted_heads) = 1
        /\ LET back == backedges(edges, accepted_heads[1])
           IN /\ Len(back) = 1
              /\ edges[back[1]].target = 1
              /\ LET poss == PossOf(edges[back[1]].parent)
                 IN /\ Len(poss) = 2
                    /\ {poss[1].prod, poss[2].prod} = {EP1, EP2}
                    /\ \A i \in 1..2 : poss[i].kind = "NonTerm"
                                       /\ Len(poss[i].children) = 3
        /\ solutions(trees, parents, forest) = 2

C2_Witness ==
    /\ pc = "done" /\ def = "Calc" /\ input = Input1Plus2Times3
    /\ Len(forest) = 2

\* ((b b) b) and (b (b b)) for S: S S | b
LeftNested == <<101, 101, 102, 1, 99, 102, 1, 99, 99, 102, 1, 99, 99>>

RightNested == <<101, 102, 1, 99, 101, 102, 1, 99, 102, 1, 99, 99, 99>>

\* C3: for S: S S | "b" the input "bbb" is accepted and the accepted head's
\* edge to the start head carries exactly the two derivations ((b b) b) and
\* (b (b b)); the Forest has exactly 2 solutions.
C3_SSTwoDerivations ==
    (pc = "done" /\ def = "SS" /\ input = <<1, 1, 1>>) =>
        /\ Len(accepted_heads) = 1
        /\ LET back == backedges(edges, accepted_heads[1])
           IN /\ Len(back) = 1
              /\ edges[back[1]].target = 1
              /\ LET ids == parents[edges[back[1]].parent].possibilities
                 IN /\ Len(ids) = 2
                    /\ {Bracketed(ids[1], Len(trees)), Bracketed(ids[2], Len(trees))}
                           = {LeftNested, RightNested}
        /\ solutions(trees, parents, forest) = 2

C3_Witness ==
    /\ pc = "done" /\ def = "SS" /\ input = <<1, 1, 1>>
    /\ accepted_heads # <<>>
    /\ Len(forest) = 2

\* C4 as claimed: no two NonTerm possibilities on the same GSS edge have the
\* same production and the same number of children.
C4_NoEqualProdAndLength ==
    \A p \in 1..Len(parents) :
        LET poss == PossOf(p)
        IN \A i, j \in 1..Len(poss) :
               (i < j /\ poss[i].kind = "NonTerm" /\ poss[j].kind = "NonTerm"
                      /\ poss[i].prod = poss[j].prod)
                   => Len(poss[i].children) # Len(poss[j].children)

\* does the edge hold a possibility that makes a path of (prod, n) not new
Blocks(before, prod, n) ==
    \E i \in 1..Len(before) :
        \/ before[i].kind = "Term"
        \/ (before[i].prod = prod /\ before[i].n # n)

\* C4 as amended: the reducer appends a possibility to an edge that already
\* existed only when every possibility on it is a NonTerm of another
\* production or with the same number of children as the new path (so equal
\* production and length may coexist); otherwise it appends nothing, and it
\* replaces children only of a possibility of the same production that has
\* fewer children than the new path.
C4_DedupOnDifferentLength ==
    \A k \in 1..Len(hist.obs) :
        LET o == hist.obs[k]
        IN /\ (o.outcome = "append" /\ o.existed)
                  => ~Blocks(o.before, o.production, o.path_len)
           /\ o.outcome \in {"replace", "skip"}
                  => (o.existed /\ Blocks(o.before, o.production, o.path_len))
           /\ o.outcome = "replace"
                  => \E i \in 1..Len(o.before) :
                         /\ o.before[i].kind = "NonTerm"
                         /\ o.before[i].prod = o.production
                         /\ o.before[i].n < o.path_len

\* a path of an already present (production, length) was appended to an
\* existing edge
C4_Witness ==
    \E k \in 1..Len(hist.obs) :
        /\ hist.obs[k].outcome = "append"
        /\ hist.obs[k].existed
        /\ \E i \in 1..Len(hist.obs[k].before) :
               /\ hist.obs[k].before[i].prod = hist.obs[k].production
               /\ hist.obs[k].before[i].n = hist.obs[k].path_len

\* the frontier the observations in hist belong to
HistFrontier ==
    IF pc \in {"shifter", "loop", "done"} /\ frontier_idx > 0
    THEN frontier_idx - 1
    ELSE frontier_idx

\* the heads of a frontier and the edges leaving them
FrontierHeads(k) == {h \in 1..Len(heads) : heads[h].frontier = k}

FrontierEdges(k) == {e \in 1..Len(edges) : heads[edges[e].source].frontier = k}

\* a reducer call registers at most one reduction per table action (an entry
\* of the tables holds at most two) for every head and every edge of its
\* frontier
WorkBounded ==
    pc # "panicked" =>
        Len(hist.reg_log) <=
            2 * (Cardinality(FrontierHeads(HistFrontier))
                          + Cardinality(FrontierEdges(HistFrontier)))

\* C5: every parse terminates: each reducer call drains pending_reductions
\* and returns, the main loop reaches an empty frontier base and the call
\* returns, also when the GSS has cycles; the reductions of one frontier are
\* bounded by its heads and edges.
C5_Terminates ==
    /\ <>(pc = "done")
    /\ ((pc = "reducer") ~> (pc = "subfrontiers"))
    /\ []WorkBounded

\* a parse over a cyclic GSS has returned
C5_Witness == pc = "done" /\ SelfLoops # {} /\ accepted_heads # <<>>

\* C6: a shift is executed only after the reducer has run for every
\* sub-frontier and pending_reductions is empty, and from the first shift of
\* an iteration to the next frontier no reduction is registered or executed.
C6_ReduceBeforeShift ==
    [][/\ hist'.shifts_done > hist.shifts_done
            => /\ pending_reductions = <<>>
               /\ frontier = EmptyMap
               /\ subfrontier = EmptyMap
               /\ hist.exec_log = hist.reg_log
       /\ (hist.shifts_done > 0 /\ pc' # "initial")
            => /\ hist'.reg_log = hist.reg_log
               /\ hist'.exec_log = hist.exec_log
               /\ pending_reductions' = <<>>]_vars

\* shifts were executed after reductions in one iteration
C6_Witness ==
    pc = "shifter" /\ hist.shifts_done > 1 /\ Len(hist.exec_log) > 1

\* C7: reductions are executed in the order of their registration, each
\* exactly once: what has been executed followed by what is pending is what
\* has been registered, and nothing is pending when the shifter runs.
C7_FifoReductions ==
    /\ hist.exec_log \o pending_reductions = hist.reg_log
    /\ pc = "shifter" => hist.exec_log = hist.reg_log

\* a reduction registered by the reducer waited behind an earlier one
C7_Witness ==
    /\ pc = "reducer"
    /\ Len(pending_reductions) > 1
    /\ Len(hist.exec_log) > 0

\* the NonTerm trees reachable in the forest
RECURSIVE ReachableTrees(_, _)
ReachableTrees(frontier_set, seen) ==
    IF frontier_set \subseteq seen THEN seen
    ELSE LET new == frontier_set \ seen
             next == UNION {UNION {{parents[trees[t].children[i]].possibilities[j] :
                                        j \in 1..Len(parents[trees[t].children[i]].possibilities)} :
                                   i \in 1..Len(trees[t].children)} : t \in new}
         IN ReachableTrees(next, seen \cup new)

ForestTrees == ReachableTrees({forest[i] : i \in 1..Len(forest)}, {})

\* C8: a reduction of length n is done over paths of exactly n edges, also
\* when n is smaller than the production's RHS, and the NonTerm nodes of the
\* resulting forest have one child for every RHS symbol of their production.
C8_RightNulledComplete ==
    /\ \A k \in 1..Len(hist.obs) : hist.obs[k].path_len = hist.obs[k].length
    /\ pc = "done" =>
           \A t \in ForestTrees :
               trees[t].kind = "NonTerm"
                   => Len(trees[t].children) = RhsLen(def, trees[t].prod)

\* a right-nulled reduction (length below the RHS length) was executed and
\* the parse returned a forest
C8_Witness ==
    /\ pc = "done"
    /\ forest # <<>>
    /\ \E k \in 1..Len(hist.obs) :
           /\ hist.obs[k].length < RhsLen(def, hist.obs[k].production)
           /\ hist.obs[k].outcome = "append"

\* the trees of the empty production of B in S: "a" B "c"; B: "b" | ;
EmptyBTrees == {t \in 1..Len(trees) : trees[t].kind = "NonTerm" /\ trees[t].prod = 3}

\* C9: for S: "a" B "c"; B: "b" | ; and the input "ac" the empty production
\* of B is reduced from the head reached by shifting "a" (node start, length
\* 0), there is exactly one parse, and the node of B has no children and the
\* range 1..1.
C9_EmptyBetweenAAndC ==
    (def = "AB" /\ input = <<1, 3>>) =>
        /\ \A k \in 1..Len(hist.exec_log) :
               hist.exec_log[k].production = 3
                   => /\ hist.exec_log[k].length = 0
                      /\ hist.exec_log[k].start.kind = "Node"
                      /\ heads[hist.exec_log[k].start.id].state = 1
                      /\ heads[hist.exec_log[k].start.id].position = 1
                      /\ edge_between(edges, hist.exec_log[k].start.id, 1) # NoEdge
        /\ pc = "done" =>
               /\ solutions(trees, parents, forest) = 1
               /\ Len(forest) = 1
               /\ Cardinality(EmptyBTrees) = 1
               /\ EmptyBTrees \subseteq ForestTrees
               /\ \A t \in EmptyBTrees :
                      /\ trees[t].children = <<>>
                      /\ trees[t].start = 1
                      /\ trees[t].end = 1

C9_Witness ==
    /\ def = "AB" /\ input = <<1, 3>> /\ pc = "done"
    /\ accepted_heads # <<>>
    /\ EmptyBTrees # {}

(***************************************************************************)
(* Properties of the LR runtime                                            *)
(***************************************************************************)
\* the first four tokens the lexer yields for the stream
LRFirstFour == [i \in 1..4 |-> LRTokenAt(lr.stream, i)]

OperandOperatorOperandStop == <<Operand, Operator, Operand, STOP>>

\* C10: with the table of CalculatorParserDefinition the LR driver accepts
\* exactly the token sequence Operand Operator Operand STOP, emitting
\* shift, shift, shift, reduce(production 1, length 3), GOTO(0, Expression)
\* = 2 and accept; every other sequence ends at an Error action, and no
\* run looks up an undefined GOTO entry or fails in the builder.
C10_CalculatorAcceptsExactly ==
    /\ [](/\ lr.status \notin {"goto_none", "builder_panic"}
          /\ lr.status = "accepted" =>
                 /\ lr.read = OperandOperatorOperandStop
                 /\ lr.events = << <<"shift", Operand>>, <<"shift", Operator>>,
                                   <<"shift", Operand>>,
                                   <<"reduce", ExpressionP1, 3>>,
                                   <<"goto", 0, Expression, 2>>, <<"accept">> >>
          /\ lr.status = "error" =>
                 /\ LRFirstFour # OperandOperatorOperandStop
                 /\ CalculatorActions(LRTop, lr.read[Len(lr.read)]) = Error)
    /\ <>(lr.status \in {"accepted", "error"})
    /\ [](LRFirstFour = OperandOperatorOperandStop => <>(lr.status = "accepted"))

\* the run that shifts three tokens, reduces the expression and accepts
C10_Witness ==
    /\ lr.status = "accepted"
    /\ lr.stack = <<0, 2>>
    /\ lr.res_stack = <<"Expression">>

(***************************************************************************)
(* Properties of the FIRST/FOLLOW engine                                   *)
(***************************************************************************)
\* FIRST of a sequence under an assignment X of sets to the symbols, as
\* the grammar theory defines it
SeqFirst(grammar, X, symbols) ==
    {x \in UNION {X[symbols[k]] : k \in 1..Len(symbols)} :
        /\ x # grammar.empty_index
        /\ \E k \in 1..Len(symbols) :
              /\ x \in X[symbols[k]]
              /\ \A j \in 1..(k - 1) : grammar.empty_index \in X[symbols[j]]}
    \cup (IF \A j \in 1..Len(symbols) : grammar.empty_index \in X[symbols[j]]
          THEN {grammar.empty_index} ELSE {})

\* X satisfies the equations of FIRST
SatisfiesFirst(grammar, X) ==
    /\ \A t \in 0..(grammar.terminals - 1) : X[t] = {t}
    /\ X[grammar.empty_index] = {grammar.empty_index}
    /\ \A i \in 1..Len(grammar.productions) :
          SeqFirst(grammar, X, grammar.productions[i].rhs)
              \subseteq X[nonterm_to_symbol(grammar, grammar.productions[i].nonterminal)]

\* the symbols of the rules (AUG and after)
RuleSymbols(grammar) == {s \in Symbols(grammar) : s > grammar.empty_index}

\* the assignments that give a terminal itself, EMPTY itself and a rule any
\* set of terminals (other than STOP) and EMPTY
FirstCandidates(grammar) ==
    {[s \in Symbols(grammar) |-> IF s \in RuleSymbols(grammar) THEN f[s] ELSE {s}] :
        f \in [RuleSymbols(grammar) ->
                  SUBSET ((1..(grammar.terminals - 1)) \cup {grammar.empty_index})]}

\* the rules that derive the empty string, by rounds of derivation
RECURSIVE DerivesEmpty(_, _, _)
DerivesEmpty(grammar, known, rounds) ==
    IF rounds = 0 THEN known
    ELSE DerivesEmpty(grammar,
             known \cup {nonterm_to_symbol(grammar, grammar.productions[i].nonterminal) :
                            i \in {k \in 1..Len(grammar.productions) :
                                      \A j \in 1..Len(grammar.productions[k].rhs) :
                                          grammar.productions[k].rhs[j] \in known}},
             rounds - 1)

Nullable(grammar) ==
    DerivesEmpty(grammar, {grammar.empty_index}, grammar.nonterminals)

\* C11: first_sets returns the least sets with FIRST(t) = {t}, FIRST(EMPTY)
\* = {EMPTY} and FIRST of every right-hand side inside FIRST of its
\* left-hand side, so EMPTY is in FIRST(A) exactly when A derives the empty
\* string; for the grammar of E, Ep, T, Tp, F it returns 13 sets with
\* FIRST(id) = {id}, FIRST(E) = FIRST(T) = FIRST(F) = {"(", id}, FIRST(Ep) =
\* {"+", EMPTY}, FIRST(Tp) = {"*", EMPTY}.
C11_FirstSetsLeast ==
    tbl.pc = "check_empty_sets" =>
        /\ SatisfiesFirst(tbl.grammar, tbl.first_sets)
        /\ \A s \in Symbols(tbl.grammar) :
              (tbl.grammar.empty_index \in tbl.first_sets[s]) <=> (s \in Nullable(tbl.grammar))
        /\ tbl.grammar # test_grammar =>
              \A X \in FirstCandidates(tbl.grammar) :
                  SatisfiesFirst(tbl.grammar, X)
                      => \A s \in Symbols(tbl.grammar) : tbl.first_sets[s] \subseteq X[s]
        /\ tbl.grammar = test_grammar =>
              /\ Cardinality(DOMAIN tbl.first_sets) = 13
              /\ tbl.first_sets[5] = {5}
              /\ tbl.first_sets[8] = {3, 5}
              /\ tbl.first_sets[10] = {3, 5}
              /\ tbl.first_sets[12] = {3, 5}
              /\ tbl.first_sets[9] = {1, 6}
              /\ tbl.first_sets[11] = {2, 6}

\* first_sets has returned for the grammar of E, Ep, T, Tp, F
C11_Witness ==
    /\ tbl.pc = "check_empty_sets"
    /\ tbl.grammar = test_grammar
    /\ tbl.grammar.empty_index \in tbl.first_sets[9]

\* X satisfies the rules of FOLLOW at the symbols of the rules
SatisfiesFollow(grammar, first, X) ==
    /\ grammar.stop_index \in X[grammar.start_index]
    /\ \A i \in 1..Len(grammar.productions) :
          LET production == grammar.productions[i]
              A == nonterm_to_symbol(grammar, production.nonterminal)
          IN \A idx \in 1..Len(production.rhs) :
                 LET B == production.rhs[idx]
                     beta == SubSeq(production.rhs, idx + 1, Len(production.rhs))
                     first_beta == SeqFirst(grammar, first, beta)
                 IN B \in RuleSymbols(grammar) =>
                        /\ (first_beta \ {grammar.empty_index}) \subseteq X[B]
                        /\ grammar.empty_index \in first_beta => X[A] \subseteq X[B]

FollowCandidates(grammar) ==
    [RuleSymbols(grammar) -> SUBSET (0..(grammar.terminals - 1))]

\* C12: follow_sets returns the least sets with STOP in FOLLOW(start), FIRST
\* (beta) minus EMPTY inside FOLLOW(B) for every production A -> alpha B
\* beta, and FOLLOW(A) inside FOLLOW(B) when beta is empty or derives EMPTY;
\* for the grammar of E, Ep, T, Tp, F it returns FOLLOW(E) = FOLLOW(Ep) =
\* {")", STOP} and FOLLOW(T) = FOLLOW(Tp) = {"+", ")", STOP}.
C12_FollowSetsLeast ==
    tbl.pc = "states" =>
        /\ SatisfiesFollow(tbl.grammar, tbl.first_sets, tbl.follow_sets)
        /\ tbl.grammar # test_grammar =>
              \A X \in FollowCandidates(tbl.grammar) :
                  SatisfiesFollow(tbl.grammar, tbl.first_sets, X)
                      => \A s \in RuleSymbols(tbl.grammar) : tbl.follow_sets[s] \subseteq X[s]
        /\ tbl.grammar = test_grammar =>
              /\ tbl.follow_sets[8] = {4, 0}
              /\ tbl.follow_sets[9] = {4, 0}
              /\ tbl.follow_sets[10] = {1, 4, 0}
              /\ tbl.follow_sets[11] = {1, 4, 0}

\* follow_sets has returned for the grammar of E, Ep, T, Tp, F
C12_Witness ==
    /\ tbl.pc = "states"
    /\ tbl.grammar = test_grammar
    /\ tbl.follow_sets[11] = {1, 4, 0}

\* the grammar with one more production
WithProduction(grammar, production) ==
    [grammar EXCEPT
        !.productions = Append(@, production),
        !.nonterminals = IF production.nonterminal = 3 THEN 4 ELSE @]

\* the productions that may be added to a generated grammar
Addable(grammar) ==
    {p \in GenProductions :
        WellFormed(Tail(WithProduction(grammar, p).productions))}

\* C13: the loops of first_sets and follow_sets terminate; the returned sets
\* are what a second computation returns and one more pass over the
\* productions adds nothing to them; and adding a production to the grammar
\* removes no element from any FIRST or FOLLOW set.
C13_FixedPointMonotone ==
    /\ (tbl.pc = "first_loop") ~> (tbl.pc = "check_empty_sets")
    /\ (tbl.pc = "follow_loop") ~> (tbl.pc = "states")
    /\ [](tbl.pc = "check_empty_sets" =>
            /\ first_sets(tbl.grammar) = tbl.first_sets
            /\ FirstPass(tbl.grammar, tbl.first_sets)
                   = [sets |-> tbl.first_sets, additions |-> FALSE]
            /\ tbl.grammar # test_grammar =>
                  \A p \in Addable(tbl.grammar) :
                      \A s \in Symbols(tbl.grammar) :
                          tbl.first_sets[s]
                              \subseteq first_sets(WithProduction(tbl.grammar, p))[s])
    /\ [](tbl.pc = "states" =>
            /\ follow_sets(tbl.grammar, tbl.first_sets) = tbl.follow_sets
            /\ FollowPass(tbl.grammar, tbl.first_sets, tbl.follow_sets)
                   = [sets |-> tbl.follow_sets, additions |-> FALSE]
            /\ tbl.grammar # test_grammar =>
                  \A p \in Addable(tbl.grammar) :
                      LET bigger == WithProduction(tbl.grammar, p)
                      IN \A s \in Symbols(tbl.grammar) :
                             tbl.follow_sets[s]
                                 \subseteq follow_sets(bigger, first_sets(bigger))[s])

\* first_sets has returned and follow_sets has returned after more than two passes
C13_Witness ==
    /\ tbl.pc = "states"
    /\ tbl.passes > 2
    /\ tbl.grammar # test_grammar

\* C14: when a symbol has an empty FIRST set after first_sets has returned,
\* check_empty_sets aborts naming the first such symbol, before FOLLOW sets
\* or LR states are computed; when no FIRST set is empty it does not abort.
C14_EmptyFirstIsFatal ==
    /\ tbl.panic = "first_set_empty" =>
          /\ tbl.first_sets[tbl.symbol] = {}
          /\ \A s \in Symbols(tbl.grammar) : tbl.first_sets[s] = {} => tbl.symbol <= s
          /\ tbl.follow_sets = <<>>
    /\ tbl.pc \in {"follow_sets", "follow_loop", "states"} \/ tbl.panic = "todo" =>
          \A s \in Symbols(tbl.grammar) : tbl.first_sets[s] # {}

\* check_empty_sets aborted for a rule that only derives itself
C14_Witness ==
    /\ tbl.panic = "first_set_empty"
    /\ tbl.symbol \in RuleSymbols(tbl.grammar)

(***************************************************************************)
(* Properties of lookaheads and of the shape of the GSS                    *)
(***************************************************************************)
ExpectsStop(h) ==
    \E i \in 1..Len(expected_token_kinds(def, heads[h].state)) :
        expected_token_kinds(def, heads[h].state)[i] = STOP

\* create_frontier has put a head of the state of h under STOP
OfferedStop(h) ==
    /\ STOP \in DOMAIN frontier
    /\ heads[h].state \in DOMAIN frontier[STOP]

\* some expected token other than STOP is recognized at the position of h
RecognizedAhead(h) ==
    \E i \in 1..Len(expected_token_kinds(def, heads[h].state)) :
        /\ expected_token_kinds(def, heads[h].state)[i] # STOP
        /\ Recognizes(def, expected_token_kinds(def, heads[h].state)[i], input,
                      heads[h].position)

BaseHeads == {frontier_base[s] : s \in DOMAIN frontier_base}

\* C15 as stated: with partial_parse every head of the frontier base whose
\* state expects STOP is offered STOP at any input position; without
\* partial_parse STOP is offered at the end of the input only.
C15_StopAtAnyPosition ==
    pc = "initial" =>
        \A h \in BaseHeads :
            /\ partial_parse /\ ExpectsStop(h) => OfferedStop(h)
            /\ ~partial_parse /\ OfferedStop(h) => heads[h].position >= Len(input)

\* C15 (amended): find_lookaheads offers a STOP token of length 0 at the
\* position of the head exactly when the state expects STOP and either the
\* input has ended or partial_parse is set and no expected token is
\* recognized at the position; so without partial_parse a head is accepted
\* at the end of the input only.
C15_StopWhenNothingRecognized ==
    /\ pc = "initial" =>
          \A h \in BaseHeads :
              /\ OfferedStop(h) <=>
                    /\ ExpectsStop(h)
                    /\ \/ heads[h].position >= Len(input)
                       \/ partial_parse /\ ~RecognizedAhead(h)
              /\ OfferedStop(h) =>
                    /\ heads[frontier[STOP][heads[h].state]].token_ahead
                           = [kind |-> STOP, len |-> 0]
                    /\ heads[frontier[STOP][heads[h].state]].position
                           = heads[h].position
    /\ \A i \in 1..Len(accepted_heads) :
          heads[accepted_heads[i]].position < Len(input) => partial_parse

\* with partial_parse a head whose state expects STOP is offered STOP with
\* input remaining
C15_Witness ==
    /\ partial_parse
    /\ pc = "initial"
    /\ \E h \in BaseHeads :
          ExpectsStop(h) /\ OfferedStop(h) /\ heads[h].position < Len(input)

\* C16 as stated: every head other than the initial start head has a parent
\* edge.
C16_EveryHeadHasParent ==
    \A h \in 2..Len(heads) : backedges(edges, h) # <<>>

\* a copy of the start head made for another lookahead token
StartClone(h) ==
    /\ h # 1
    /\ heads[h].token_ahead # NoToken
    /\ heads[1].token_ahead # NoToken
    /\ heads[h].token_ahead # heads[1].token_ahead
    /\ [heads[h] EXCEPT !.token_ahead = heads[1].token_ahead] = heads[1]

\* a copy of a head other than the start head made for another lookahead
Clone(h) ==
    \E o \in 2..(h - 1) :
        /\ heads[h].token_ahead # NoToken
        /\ heads[o].token_ahead # NoToken
        /\ heads[h].token_ahead # heads[o].token_ahead
        /\ [heads[h] EXCEPT !.token_ahead = heads[o].token_ahead] = heads[o]
        /\ heads[h].position_before = heads[h].position
        /\ \A e \in 1..Len(edges) :
              edges[e].source = o =>
                  \E f \in 1..Len(edges) :
                      /\ edges[f].source = h
                      /\ edges[f].target = edges[e].target
                      /\ edges[f].parent = edges[e].parent

\* C16 (amended): every head other than the initial start head and the
\* copies head_for_lookahead makes of it (which have no parent edge to
\* copy) has a parent edge; a copy of any other head has the parent edges of
\* the head it was copied from.
C16_HeadHasParentUnlessStartClone ==
    \A h \in 2..Len(heads) :
        /\ backedges(edges, h) = <<>> => StartClone(h)
        /\ \A o \in 2..(h - 1) :
              (/\ heads[h].token_ahead # NoToken
               /\ heads[o].token_ahead # NoToken
               /\ heads[h].token_ahead # heads[o].token_ahead
               /\ heads[o].position_before = heads[o].position
               /\ [heads[h] EXCEPT !.token_ahead = heads[o].token_ahead] = heads[o])
                  => backedges(edges, h) # <<>>

\* heads made by the shifter, by the reducer and by head_for_lookahead from
\* a head other than the start head, each with a parent edge
C16_Witness ==
    /\ def = "LA"
    /\ \E h \in 2..Len(heads) : Clone(h) /\ backedges(edges, h) # <<>>
    /\ accepted_heads # <<>>
    /\ pc = "done"

\* C17: the GSS holds at most one edge for an ordered pair of heads; a
\* reduction or a shift that reaches a connected pair adds a possibility to
\* the Parent of the existing edge.
C17_OneEdgePerPair ==
    \A e \in 1..Len(edges) : \A f \in 1..Len(edges) :
        (edges[e].source = edges[f].source /\ edges[e].target = edges[f].target)
            => e = f

\* a reduction reached a connected pair: its edge holds two possibilities
C17_Witness ==
    \E e \in 1..Len(edges) : Len(parents[edges[e].parent].possibilities) >= 2

\* the input length between the two heads of a Parent
Span(p) ==
    heads[parents[p].head_node].position - heads[parents[p].root_node].position

RECURSIVE SumSpans(_)
SumSpans(children) ==
    IF children = <<>> THEN 0 ELSE Span(children[1]) + SumSpans(Tail(children))

\* the children of the possibilities of a Parent
ChildParents(p) ==
    UNION {{trees[t].children[k] : k \in 1..Len(trees[t].children)} :
              t \in {parents[p].possibilities[i] :
                         i \in 1..Len(parents[p].possibilities)}}

\* the Parents a set of Parents reaches through the children of their
\* NonTerminal possibilities
RECURSIVE Under(_, _)
Under(ps, n) ==
    CHOOSE r \in
        {IF n = 0 THEN q
         ELSE Under(q \cup UNION {ChildParents(p) : p \in q}, n - 1) : q \in {ps}} : TRUE

\* the Parents of the parses of the accepted heads
AcceptedParents ==
    Under({edges[e].parent : e \in {x \in 1..Len(edges) :
                                       \E i \in 1..Len(accepted_heads) :
                                           edges[x].source = accepted_heads[i]}},
          Len(parents))

\* C19: in the parses of the accepted heads the tokens of each possibility
\* have the length of the input between the two heads of its edge (a
\* Terminal its token, a NonTerminal the sum over its children; no layout is
\* consumed), the start head is at position 0, and so along every chain of
\* edges from an accepted head back to the start head the token lengths add
\* up to the position of the accepted head.
C19_TokenLengthsAddUp ==
    /\ heads[1].position = 0
    /\ \A p \in AcceptedParents :
          /\ Span(p) >= 0
          /\ \A i \in 1..Len(parents[p].possibilities) :
                LET t == trees[parents[p].possibilities[i]]
                IN IF t.kind = "Term"
                   THEN t.token.len = Span(p)
                   ELSE SumSpans(t.children) = Span(p)
    /\ \A i \in 1..Len(accepted_heads) :
          /\ heads[accepted_heads[i]].position <= Len(input)
          /\ ~partial_parse => heads[accepted_heads[i]].position = Len(input)

\* C20: every edge goes from a head to a head created strictly earlier.
C20_EdgesGoToOlderHeads ==
    \A e \in 1..Len(edges) : edges[e].target < edges[e].source


(***************************************************************************)
(* Properties of generate_parser                                           *)
(***************************************************************************)
\* C21: when the table has a conflict generate_parser returns an error and
\* writes no parser file; when the grammar file does not exist it returns an
\* error and writes nothing; the parser file is written only after the
\* conflict check has passed.
C21_NoParserOnConflict ==
    /\ gen.parser_written =>
          /\ gen.conflicts_checked
          /\ gen.conflicts = 0
          /\ gen.exists
    /\ (gen.pc = "done" /\ gen.conflicts_checked /\ gen.conflicts # 0) =>
          /\ gen.result = "Err"
          /\ gen.error = "Grammar is not deterministic. There are conflicts."
          /\ ~gen.parser_written
    /\ (gen.pc \notin {"idle", "start"} /\ ~gen.exists) =>
          /\ gen.pc = "done"
          /\ gen.result = "Err"
          /\ ~gen.parser_written
          /\ ~gen.actions_written
          /\ ~gen.dir_created
    /\ (gen.pc \in {"generate", "create_dir", "write"} \/ gen.result = "Ok") =>
          gen.conflicts_checked /\ gen.conflicts = 0

\* generate_parser has returned the error for a table with conflicts
C21_Witness ==
    /\ gen.pc = "done"
    /\ gen.conflicts_checked
    /\ gen.conflicts # 0
    /\ gen.result = "Err"
    /\ gen.write_ok

(***************************************************************************)
(* Properties of the reducer and the shifter                               *)
(***************************************************************************)
\* the observations of the reducer in the current main-loop iteration that
\* reached a head
Reached == {k \in 1..Len(hist.obs) : hist.obs[k].outcome # "noaction"}

\* C22: the head the reducer looks up or creates for a reduction path
\* carries the lookahead token of the start head of the reduction and is a
\* head of the same frontier, also when the frontier has several
\* sub-frontiers.
C22_ResultHeadHasLookaheadOfStart ==
    \A k \in Reached :
        /\ heads[hist.obs[k].head].token_ahead
               = heads[hist.obs[k].start_head].token_ahead
        /\ heads[hist.obs[k].head].frontier
               = heads[hist.obs[k].start_head].frontier

\* the walks of n back-edges that begin with the edge e
RECURSIVE Walks(_, _)
Walks(e, n) ==
    IF n = 1 THEN {<<e>>}
    ELSE {<<e>> \o w :
             w \in UNION {Walks(f, n - 1) :
                             f \in {x \in 1..Len(edges) :
                                       edges[x].source = edges[e].target}}}

\* the ReductionPath of a walk: the parents from the root side to the start
\* edge, and the target of the last edge walked
PathOfWalk(w) ==
    [parents |-> [i \in 1..Len(w) |-> edges[w[Len(w) + 1 - i]].parent],
     root_head |-> edges[w[Len(w)]].target]

\* C23: for a pending reduction that starts at an edge with length n >= 1
\* find_reduction_paths returns one path for every walk of n back-edges that
\* begins with the edge and no walk twice, each with n parents ordered from
\* the root side to the start edge and the target of the last edge as
\* root_head; for a Node start it returns one path without parents whose
\* root_head is the node.
C23_OnePathPerWalk ==
    \A k \in 1..Len(pending_reductions) :
        LET reduction == pending_reductions[k]
            paths == find_reduction_paths(edges, reduction)
        IN IF reduction.start.kind = "Node"
           THEN /\ reduction.length = 0
                /\ paths = <<[parents |-> <<>>, root_head |-> reduction.start.id]>>
           ELSE /\ reduction.length >= 1
                /\ Len(paths) = Cardinality(Walks(reduction.start.id, reduction.length))
                /\ \A w \in Walks(reduction.start.id, reduction.length) :
                      Cardinality({i \in 1..Len(paths) : paths[i] = PathOfWalk(w)}) = 1
                /\ \A i \in 1..Len(paths) :
                      /\ Len(paths[i].parents) = reduction.length
                      /\ \E w \in Walks(reduction.start.id, reduction.length) :
                            paths[i] = PathOfWalk(w)

\* a reduction of length 2 or more whose start edge begins several walks is
\* pending
C23_Witness ==
    \E k \in 1..Len(pending_reductions) :
        /\ pending_reductions[k].start.kind = "Edge"
        /\ pending_reductions[k].length >= 2
        /\ Cardinality(Walks(pending_reductions[k].start.id,
                             pending_reductions[k].length)) >= 2

\* the observations one reducer step adds to the history
StepObs == {hist'.obs[k] : k \in (Len(hist.obs) + 1)..Len(hist'.obs)}

\* what one reducer step pushes to the three work lists
StepReductions ==
    {hist'.reg_log[k] : k \in (Len(hist.reg_log) + 1)..Len(hist'.reg_log)}

StepShifts ==
    {pending_shifts'[k] : k \in (Len(pending_shifts) + 1)..Len(pending_shifts')}

StepAccepts ==
    {accepted_heads'[k] : k \in (Len(accepted_heads) + 1)..Len(accepted_heads')}

\* one iteration of the reducer registers work only for what it created
RegistersForCreated ==
    /\ \A sh \in StepShifts :
          \E o \in StepObs : o.head = sh[1] /\ o.head_created
    /\ \A h \in StepAccepts :
          \E o \in StepObs : o.head = h /\ o.head_created
    /\ \A r \in StepReductions :
          IF r.length = 0
          THEN /\ r.start.kind = "Node"
               /\ \E o \in StepObs : o.head = r.start.id /\ o.head_created
          ELSE /\ r.start.kind = "Edge"
               /\ r.start.id > Len(edges)
               /\ \E o \in StepObs :
                     /\ o.head_created \/ o.edge_created
                     /\ edges'[r.start.id].source = o.head
                     /\ edges'[r.start.id].target = o.root_head

\* nothing is on a work list twice, and what is registered belongs to the
\* current frontier
RegisteredOnce ==
    /\ \A i, j \in 1..Len(pending_shifts) :
          i # j => pending_shifts[i] # pending_shifts[j]
    /\ \A i, j \in 1..Len(hist.reg_log) :
          i # j => \/ hist.reg_log[i].start # hist.reg_log[j].start
                   \/ hist.reg_log[i].production # hist.reg_log[j].production
    /\ pc \in {"subfrontiers", "reducer"} =>
          /\ \A i \in 1..Len(pending_shifts) :
                heads[pending_shifts[i][1]].frontier = frontier_idx
          /\ \A i \in 1..Len(hist.reg_log) :
                LET start == hist.reg_log[i].start
                IN heads[IF start.kind = "Edge" THEN edges[start.id].source
                         ELSE start.id].frontier = frontier_idx

\* C24: the reducer registers a Shift, an Accept or a Reduce of length 0
\* only for a head it has just created, a Reduce of length > 0 only over an
\* edge it has just created, and nothing when head and edge existed; no
\* (head, target state) pair is pushed to pending_shifts twice and no
\* reduction is registered twice for the same (start, production).
C24_RegistersOnlyForNew ==
    [][/\ (pc = "reducer" /\ hist'.exec_log # hist.exec_log) => RegistersForCreated
       /\ RegisteredOnce']_vars

\* the reducer has added a possibility to an existing edge of an existing
\* head, and has created a head for another result
C24_Witness ==
    /\ \E k \in Reached : /\ hist.obs[k].outcome = "append"
                          /\ ~hist.obs[k].head_created
                          /\ ~hist.obs[k].edge_created
    /\ \E k \in Reached : hist.obs[k].head_created
    /\ pending_shifts # <<>>

\* the shifts the shifter has drained in this iteration
Drained == {hist.shift_log[k] : k \in 1..Len(hist.shift_log)}

\* C25: after shifter returns pending_shifts is empty, the new frontier base
\* has exactly one head per target state of the drained shifts, and for
\* every drained shift (head, target state) the head of the target state
\* has an edge to the shifting head with one Terminal possibility carrying
\* the lookahead of the shifting head, and is at the position of the
\* shifting head plus the length of that token.
C25_ShifterPostcondition ==
    (pc = "loop" /\ frontier_idx >= 1) =>
        /\ pending_shifts = <<>>
        /\ DOMAIN frontier_base = {sh[2] : sh \in Drained}
        /\ \A s \in DOMAIN frontier_base : heads[frontier_base[s]].state = s
        /\ {h \in 1..Len(heads) : heads[h].frontier = frontier_idx}
               = {frontier_base[s] : s \in DOMAIN frontier_base}
        /\ \A s, t \in DOMAIN frontier_base :
              frontier_base[s] = frontier_base[t] => s = t
        /\ \A sh \in Drained :
              LET target == frontier_base[sh[2]]
                  e == edge_between(edges, target, sh[1])
              IN /\ e # NoEdge
                 /\ Len(parents[edges[e].parent].possibilities) = 1
                 /\ trees[parents[edges[e].parent].possibilities[1]]
                        = TermTree(heads[sh[1]].token_ahead)
                 /\ heads[target].position
                        = heads[sh[1]].position + heads[sh[1]].token_ahead.len

\* C26: all heads of one frontier, those of the frontier base the shifter
\* produced and those the reducer added to its sub-frontiers, are at the
\* same input position.
C26_FrontierAtOnePosition ==
    \A h \in 1..Len(heads) : \A g \in 1..Len(heads) :
        heads[h].frontier = heads[g].frontier
            => heads[h].position = heads[g].position

\* the heads of the frontier that have the state
HeadsOfState(state) ==
    {frontier[k][state] : k \in {x \in DOMAIN frontier : state \in DOMAIN frontier[x]}}

\* the parent edges of a head: their targets and their Parents
ParentEdges(h) ==
    {<<edges[e].target, edges[e].parent>> :
        e \in {x \in 1..Len(edges) : edges[x].source = h}}

\* C27: after create_frontier, for every head of the base for which the
\* lexer returns k >= 1 tokens of distinct kinds, the frontier holds exactly
\* k heads of that head's state, one in the sub-frontier of each token
\* kind with that token as its lookahead; the original is one of them and
\* every clone has the state and the parent edges (targets and shared
\* Parents) of the original.
C27_FanOutPerToken ==
    pc = "initial" =>
        \A s \in DOMAIN frontier_base :
            LET b == frontier_base[s]
                tokens == find_lookaheads(def, heads[b], input)
            IN Len(tokens) >= 1 =>
                /\ Cardinality(HeadsOfState(s)) = Len(tokens)
                /\ b \in HeadsOfState(s)
                /\ \A i \in 1..Len(tokens) :
                      /\ tokens[i].kind \in DOMAIN frontier
                      /\ s \in DOMAIN frontier[tokens[i].kind]
                      /\ heads[frontier[tokens[i].kind][s]].token_ahead = tokens[i]
                /\ \A c \in HeadsOfState(s) :
                      /\ heads[c].state = heads[b].state
                      /\ heads[c].position = heads[b].position
                      /\ ParentEdges(c) = ParentEdges(b)
                      /\ Len(backedges(edges, c)) = Len(backedges(edges, b))

\* a head with parent edges has received two lookahead tokens
C27_Witness ==
    /\ pc = "initial"
    /\ \E s \in DOMAIN frontier_base :
          /\ Len(find_lookaheads(def, heads[frontier_base[s]], input)) >= 2
          /\ Cardinality(HeadsOfState(s)) >= 2
          /\ ParentEdges(frontier_base[s]) # {}

\* a head create_frontier has passed without giving it a lookahead
Dead(h) ==
    /\ heads[h].token_ahead = NoToken
    /\ \/ heads[h].frontier < frontier_idx
       \/ pc \in {"initial", "subfrontiers", "reducer", "done"}

\* the head a reduction starts at
StartHead(start) ==
    IF start.kind = "Edge" THEN edges[start.id].source ELSE start.id

\* C28: a head of the frontier base for which find_lookaheads returns no
\* token is dead: it is in no sub-frontier, no reduction, shift or accept is
\* registered for it and the reducer never reaches it; this raises no error,
\* and the other heads of the base are placed in their sub-frontiers.
C28_DeadHead ==
    \A h \in {x \in 1..Len(heads) : Dead(x)} :
        /\ find_lookaheads(def, heads[h], input) = <<>>
        /\ \A k \in DOMAIN frontier : \A s \in DOMAIN frontier[k] :
              frontier[k][s] # h
        /\ \A s \in DOMAIN subfrontier : subfrontier[s] # h
        /\ \A i \in 1..Len(pending_shifts) : pending_shifts[i][1] # h
        /\ \A i \in 1..Len(pending_reductions) :
              StartHead(pending_reductions[i].start) # h
        /\ \A i \in 1..Len(hist.reg_log) : StartHead(hist.reg_log[i].start) # h
        /\ \A i \in 1..Len(accepted_heads) : accepted_heads[i] # h
        /\ \A k \in Reached : hist.obs[k].head # h /\ hist.obs[k].start_head # h
        /\ pc # "panicked"
        /\ pc = "initial" =>
              \A s \in DOMAIN frontier_base :
                  find_lookaheads(def, heads[frontier_base[s]], input) # <<>>
                      => frontier_base[s] \in HeadsOfState(s)

\* a frontier base had a dead head next to a head with a lookahead, and the
\* parse went on to accept
C28_Witness ==
    /\ pc = "done"
    /\ accepted_heads # <<>>
    /\ \E h \in 1..Len(heads) : \E g \in 1..Len(heads) :
          /\ Dead(h)
          /\ heads[g].frontier = heads[h].frontier
          /\ heads[g].token_ahead # NoToken
          /\ g # h

\* is the sequence a proper prefix of the other
ProperPrefix(old, new) ==
    /\ Len(old) < Len(new)
    /\ \A i \in 1..Len(old) : new[i] = old[i]

FrameOfStep ==
    /\ Len(heads') >= Len(heads)
    /\ Len(edges') >= Len(edges)
    /\ \A h \in 1..Len(heads) :
          heads[h].frontier < frontier_idx =>
              /\ heads'[h].state = heads[h].state
              /\ heads'[h].position = heads[h].position
              /\ heads'[h].token_ahead = heads[h].token_ahead
              /\ heads'[h].frontier = heads[h].frontier
    /\ \A h \in (Len(heads) + 1)..Len(heads') : heads'[h].frontier = frontier_idx
    /\ \A e \in 1..Len(edges) :
          /\ edges'[e] = edges[e]
          /\ heads[edges[e].source].frontier < frontier_idx =>
                LET p == edges[e].parent
                IN /\ parents'[p] = parents[p]
                   /\ \A i \in 1..Len(parents[p].possibilities) :
                         trees'[parents[p].possibilities[i]]
                             = trees[parents[p].possibilities[i]]
    /\ \A e \in (Len(edges) + 1)..Len(edges') :
          heads'[edges'[e].source].frontier = frontier_idx

\* C30: a step of the reducer of iteration k, or of the shifter that builds
\* frontier k + 1, creates heads of that frontier only and edges leaving
\* heads of that frontier only; it leaves the state, position and lookahead
\* of every head of an earlier frontier, every existing edge, and the
\* possibility lists of the edges of earlier frontiers unchanged.
C30_Frame ==
    [][(pc \in {"reducer", "shifter"}) => FrameOfStep]_vars

\* in the third iteration or later the reducer has reduced and the shifter
\* has shifted over a graph with heads of earlier frontiers
C30_Witness ==
    /\ pc = "shifter"
    /\ frontier_idx >= 3
    /\ hist.shifts_done >= 1
    /\ Len(hist.exec_log) >= 1

\* FIRST(beta L) for the item [A -> alpha . B beta, L]
FirstAfterDot(item) ==
    LET rhs == RhsOf(tbl.grammar, item.prod)
        rest == firsts(tbl.grammar, tbl.first_sets,
                       SubSeq(rhs, item.position + 2, Len(rhs)))
    IN IF tbl.grammar.empty_index \in rest
       THEN (rest \ {tbl.grammar.empty_index}) \cup item.follow
       ELSE rest

\* C31: once calculate_lr_tables has called closure on a state, closure has
\* returned and the items of the state are closed: for every item
\* [A -> alpha . B beta, L] and every production B -> gamma the state holds
\* one item with the core (B -> . gamma) whose follow set includes
\* FIRST(beta L).
C31_ClosureClosesState ==
    tbl.closure_passes >= 1 =>
        /\ tbl.panic = "none"
        /\ \A item \in tbl.items :
              LET at == symbol_at_position(tbl.grammar, item)
              IN (at # <<>> /\ is_nonterm(tbl.grammar, at[1])) =>
                    \A k \in 1..Len(ProductionsOf(tbl.grammar, at[1])) :
                        \E j \in tbl.items :
                            /\ j.prod = ProductionsOf(tbl.grammar, at[1])[k]
                            /\ j.position = 0
                            /\ FirstAfterDot(item) \subseteq j.follow

\* C32: the state construction starts from state 0 whose only kernel item
\* is production 0 at dot position 0 with the follow set {STOP}.
C32_KernelOfStateZero ==
    tbl.closure_passes >= 1 =>
        tbl.items = {[prod |-> 0, position |-> 0,
                      follow |-> {tbl.grammar.stop_index}]}

\* the sequences firsts is asked about: the right-hand sides and their
\* suffixes, the empty one included
RhsSuffixes ==
    UNION {{SubSeq(tbl.grammar.productions[i].rhs, j,
                   Len(tbl.grammar.productions[i].rhs)) :
               j \in 1..(Len(tbl.grammar.productions[i].rhs) + 1)} :
           i \in 1..Len(tbl.grammar.productions)}

\* the position of the first symbol whose FIRST set lacks EMPTY, or the
\* length of the sequence plus one
StopAt(seq) ==
    LET lacking == {i \in 1..Len(seq) :
                       tbl.grammar.empty_index \notin tbl.first_sets[seq[i]]}
    IN IF lacking = {} THEN Len(seq) + 1
       ELSE CHOOSE i \in lacking : \A j \in lacking : i <= j

\* C33: for the FIRST sets of any pass, firsts of a sequence holds the
\* non-EMPTY elements of FIRST(X_i) for each X_i up to and including the
\* first symbol whose FIRST lacks EMPTY and nothing else besides EMPTY; it
\* holds EMPTY iff every symbol of the sequence has EMPTY in its FIRST set,
\* and it is {EMPTY} for the empty sequence.
C33_FirstsOfSequence ==
    tbl.first_sets # <<>> =>
        \A seq \in RhsSuffixes :
            LET got == firsts(tbl.grammar, tbl.first_sets, seq)
                empty == tbl.grammar.empty_index
            IN /\ got \ {empty}
                    = UNION {tbl.first_sets[seq[i]] \ {empty} :
                                i \in {x \in 1..Len(seq) : x <= StopAt(seq)}}
               /\ empty \in got <=> StopAt(seq) = Len(seq) + 1
               /\ seq = <<>> => got = {empty}

\* after a pass of first_sets a right-hand side begins with a symbol that
\* derives EMPTY and goes on with one that does not
C33_Witness ==
    /\ tbl.pc = "first_loop"
    /\ tbl.passes >= 1
    /\ \E seq \in RhsSuffixes :
          /\ Len(seq) >= 2
          /\ StopAt(seq) = 2
          /\ tbl.first_sets[seq[2]] # {}

\* C34: an item built from LRItem::new by next_item has its position in
\* [0, |RHS|]; next_item returns the item with the same production, the
\* position plus one and the same follow set when the position is below
\* |RHS| and None otherwise; symbol_at_position returns the symbol at the
\* dot when the position is below |RHS| and None at and past the end.
C34_DotPosition ==
    tbl.pc = "item" =>
        /\ tbl.item.position \in 0..Len(RhsOf(tbl.grammar, tbl.item.prod))
        /\ tbl.next # <<>> =>
              LET from == tbl.next[1].from
                  to == tbl.next[1].to
              IN IF from.position < Len(RhsOf(tbl.grammar, from.prod))
                 THEN /\ Len(to) = 1
                      /\ to[1].prod = from.prod
                      /\ to[1].position = from.position + 1
                      /\ to[1].follow = from.follow
                 ELSE to = <<>>
        /\ tbl.probe # <<>> =>
              LET rhs == RhsOf(tbl.grammar, tbl.probe[1].prod)
                  position == tbl.probe[1].position
              IN IF position < Len(rhs)
                 THEN tbl.probe[1].symbol = <<rhs[position + 1]>>
                 ELSE tbl.probe[1].symbol = <<>>

\* next_item has returned None for an item with follow terminals at the end
\* of a right-hand side of two symbols or more, after it had returned the
\* item at the end, and symbol_at_position was asked past the end
C34_Witness ==
    /\ tbl.pc = "item"
    /\ tbl.next # <<>>
    /\ tbl.next[1].to = <<>>
    /\ tbl.next[1].from.follow # {}
    /\ tbl.next[1].from.position >= 2
    /\ tbl.probe # <<>>
    /\ tbl.probe[1].position > Len(RhsOf(tbl.grammar, tbl.probe[1].prod))
    /\ tbl.probe[1].symbol = <<>>

\* the possibilities on the back-edges of the accepted heads
AcceptedPossibilities ==
    UNION {{parents[edges[e].parent].possibilities[i] :
               i \in 1..Len(parents[edges[e].parent].possibilities)} :
           e \in {x \in 1..Len(edges) :
                     \E k \in 1..Len(accepted_heads) :
                         edges[x].source = accepted_heads[k]}}

\* C35: no head is in accepted_heads twice and every accepted head has an
\* Accept action for its state and lookahead; the Forest of a finished
\* parse holds exactly the possibilities that are then on the back-edges of
\* the accepted heads, each of them once.
C35_ForestOfAcceptedHeads ==
    /\ \A i, j \in 1..Len(accepted_heads) :
          i # j => accepted_heads[i] # accepted_heads[j]
    /\ \A i \in 1..Len(accepted_heads) :
          LET head == heads[accepted_heads[i]]
              acts == actions(def, head.state, head.token_ahead.kind)
          IN \E k \in 1..Len(acts) : acts[k].type = "Accept"
    /\ pc = "done" =>
          /\ {forest[i] : i \in 1..Len(forest)} = AcceptedPossibilities
          /\ \A i, j \in 1..Len(forest) : i # j => forest[i] # forest[j]

\* a parse has finished whose accepted head got a further solution on its
\* edge after it was accepted
C35_Witness ==
    /\ pc = "done"
    /\ Len(forest) >= 2
    /\ \E e \in 1..Len(edges) :
          /\ \E k \in 1..Len(accepted_heads) : edges[e].source = accepted_heads[k]
          /\ Len(parents[edges[e].parent].possibilities) >= 2

\* follow_sets after the first `last` right-hand-side symbols of a production
RECURSIVE FollowUpTo(_, _, _, _, _, _)
FollowUpTo(grammar, first, st, production, idx, last) ==
    CHOOSE r \in
        {IF idx > last THEN s
         ELSE FollowUpTo(grammar, first,
                         FollowSymbol(grammar, first, s, production, idx),
                         production, idx + 1, last) : s \in {st}} : TRUE

\* the FOLLOW sets after every step of the pass that starts from `sets`
FollowSteps(grammar, first, sets) ==
    UNION {{FollowUpTo(grammar, first,
                       FollowProductions(grammar, first,
                                         [sets |-> sets, additions |-> FALSE],
                                         SubSeq(grammar.productions, 1, p - 1)),
                       grammar.productions[p], 1, last).sets :
               last \in 0..Len(grammar.productions[p].rhs)} :
           p \in 1..Len(grammar.productions)}

FollowWellFormed(grammar, sets) ==
    /\ \A s \in DOMAIN sets : grammar.empty_index \notin sets[s]
    /\ grammar.stop_index \in sets[grammar.start_index]

\* C39: from the start of the follow_sets loop on, and after every step of
\* every pass of it, no FOLLOW set contains EMPTY and FOLLOW(start)
\* contains STOP.
C39_FollowWithoutEmpty ==
    (\/ tbl.pc \in {"follow_loop", "states"}
     \/ tbl.pc = "panicked" /\ tbl.panic = "todo") =>
        /\ FollowWellFormed(tbl.grammar, tbl.follow_sets)
        /\ tbl.pc = "follow_loop" /\ tbl.additions =>
              \A sets \in FollowSteps(tbl.grammar, tbl.first_sets, tbl.follow_sets) :
                  FollowWellFormed(tbl.grammar, sets)

\* follow_sets has returned for a grammar in which Rule 2 passed over a
\* symbol that derives EMPTY, and a symbol is followed by two terminals
C39_Witness ==
    /\ tbl.pc = "states"
    /\ tbl.passes >= 2
    /\ \E p \in 1..Len(tbl.grammar.productions) :
          LET rhs == tbl.grammar.productions[p].rhs
          IN \E i \in 1..Len(rhs) :
                /\ i < Len(rhs)
                /\ tbl.grammar.empty_index \in tbl.first_sets[rhs[i + 1]]
    /\ \E s \in DOMAIN tbl.follow_sets : Cardinality(tbl.follow_sets[s]) >= 2

\* the LR states of the root heads of the reduction paths taken so far in
\* the current main-loop iteration
RootStates == {heads[hist.obs[k].root_head].state : k \in 1..Len(hist.obs)}

\* C38: with the CalcParserDefinition table the driver does not panic, and
\* every root head of a reduction path is in state AUGS0, AddS3 or MulS4,
\* the states whose goto function has an entry for E.
C38_CalcGotoDefined ==
    def = "Calc" =>
        /\ pc # "panicked"
        /\ RootStates \subseteq {AUGS0, AddS3, MulS4}
        /\ \A k \in 1..Len(hist.obs) :
              CalcGoto(heads[hist.obs[k].root_head].state,
                       NonTermOf(def, hist.obs[k].production)) # GotoPanic

\* a calculator parse has finished whose last frontier had reduction paths
\* with root heads in each of the three states
C38_Witness ==
    /\ def = "Calc"
    /\ pc = "done"
    /\ RootStates = {AUGS0, AddS3, MulS4}

\* the heads stored in a sub-frontier
HeadsIn(sub) == {sub[state] : state \in DOMAIN sub}

\* C37: the unwrap of token_ahead never fails, every head stored in the
\* sub-frontier of token kind K has a lookahead of kind K, and the heads of
\* the sub-frontier a reducer call owns (which was made for one token kind)
\* all have a lookahead of that one kind.
C37_LookaheadSet ==
    /\ pc # "panicked"
    /\ \A K \in DOMAIN frontier : \A h \in HeadsIn(frontier[K]) :
          /\ heads[h].token_ahead # NoToken
          /\ heads[h].token_ahead.kind = K
    /\ \A h \in HeadsIn(subfrontier) : heads[h].token_ahead # NoToken
    /\ \A g, h \in HeadsIn(subfrontier) :
          heads[g].token_ahead.kind = heads[h].token_ahead.kind

\* C36: find_lookaheads calls the layout parser at most once and only after
\* a first lexing attempt that gave no token; it lexes at most twice, the
\* second time only after the layout parser returned a non-empty layout; and
\* when it returns the head has the LR state it had at the call, whatever
\* the layout parser returned.
C36_LayoutOnceStateRestored ==
    /\ look.layout_calls <= 1
    /\ look.layout_calls = 1 => /\ look.layout_parser
                                /\ look.lexed # <<>>
                                /\ look.lexed[1] = 0
    /\ look.pc = "layout_parse" => look.lexed = <<0>>
    /\ Len(look.lexed) <= 2
    /\ Len(look.lexed) = 2 => /\ look.layout_calls = 1
                              /\ look.layout.ok
                              /\ look.layout.value # <<>>
                              /\ look.layout.value[1] > 0
                              /\ look.layout_ahead = look.layout.value
    /\ look.pc \in {"lex", "no_tokens", "returned"} =>
          look.state = look.entry_state

\* a call has returned after a second lexing attempt, the layout parser
\* having left the head in a state that is neither the layout state nor the
\* state at the call
C36_Witness ==
    /\ look.pc = "returned"
    /\ Len(look.lexed) = 2
    /\ look.layout_calls = 1
    /\ look.left_state # <<>>
    /\ look.left_state[1] \notin {look.entry_state, look.default_layout}
    /\ look.default_layout # look.entry_state

\* a call has returned after a layout parse that failed and had left the
\* head in another state
C36_WitnessErr ==
    /\ look.pc = "returned"
    /\ look.layout_calls = 1
    /\ ~look.layout.ok
    /\ look.left_state # <<look.entry_state>>

====
